---------------------------- MODULE Spec2Model ----------------------------
(***************************************************************************)
(* Model of the migration scripts of my-question-bank:                     *)
(*   scripts/bulk_import_exam_papers.py  (exam-paper importer)             *)
(*   scripts/convert_backup.py           (question-bank converter)         *)
(*                                                                         *)
(* Python values are modelled as follows.  None is the string NoneVal for  *)
(* string-valued fields and NoId (0) for Optional[int] ids: the database   *)
(* assigns ids from 1 and the code tests ids by truthiness.  Text that the *)
(* code takes apart (a year, a chapter name) is a sequence of characters.  *)
(***************************************************************************)
EXTENDS Integers, Sequences, FiniteSets, TLC

VARIABLES
  \* ---- bulk_import_exam_papers.main ----
  pc,                   \* position of main
  args,                 \* [dry_run, n_paper, creds]
  reader,               \* collect_records: [lines read, rec: the row at hand]
  records,              \* collect_records: records
  early_errors,         \* collect_records: errors
  required_exams,       \* collect_records: required_exams
  required_subjects,    \* collect_records: required_subjects
  required_tag_values,  \* collect_records: required_tag_values
  rtv_order,            \* insertion order of the keys of required_tag_values
  exam_name_to_id,
  subject_old_to_new,
  tag_cache,
  tag_value_cache,
  dummy,                \* [subject, tag, value]: the dry-run placeholder counters
  cur,                  \* loop positions of the upsert phases
  result,               \* [processed, imported, skipped, failed, pdf_missing]
  loc,                  \* locals of the current record iteration
  errors_file,          \* lines appended by append_error
  db,                   \* the remote tables
  storage,              \* the remote bucket exam_papers
  hist,                 \* history: remote operations issued, outcomes per record
  \* ---- calls of the ensure_* helpers ----
  ens,                  \* [db, calls, ret]: backend, number of calls, ids returned per key
  \* ---- convert_backup ----
  cpc,                  \* position of convert_subject / build_output_item
  chapter_map,          \* chapter key -> chapter id
  raw_chapter_name,     \* build_output_item: properties.chapter of the record
  chapter_id,           \* build_output_item: the resolved chapter id
  cargs,                \* [limit]: arguments of convert_subject
  lines_read,           \* convert_subject: lines of the questions file read
  results,              \* convert_subject: results
  missing_images,       \* convert_subject: missing_images
  error_report,         \* ErrorReport: [errors, total_processed, successful, failed]
  clog,                 \* history: per record read, the object and what it led to
  \* ---- convert_backup.upload_items ----
  upc,                  \* position of upload_items / upload_single_item
  items,                \* the converted items to upload
  item_idx,             \* 1-based index of the item at hand
  q_id,                 \* id of the questions row of the item at hand
  uploaded_q,           \* rows for question_images built so far
  uploaded_a,           \* rows for answer_images built so far
  upos,                 \* [kind, idx, attempt]: the image and the upload_file attempt at hand
  u_success,            \* upload_items: success
  u_failed,             \* upload_items: failed
  updb,                 \* the remote tables questions, question_images, answer_images
  buckets,              \* the blobs in the question and answer buckets
  ulog,                 \* history: per item, how its processing ended
  \* ---- convert_backup.main: --sync-db chapters of one subject ----
  spc,                  \* position of the chapter sync
  options,              \* options of the chapter tag of the subject
  chapter_hierarchy,    \* parse_chapter_hierarchy(options), in insertion order
  parent_chapters,
  sub_chapters,         \* sub_name -> parent_name, in insertion order
  existing_by_name,
  existing_by_id,
  local_chapter_map,
  chapters,             \* the remote table chapters: [rows, seq]
  sruns,                \* number of sync runs started
  slog,                 \* history: the chapter inserts issued, in order
  \* ---- convert_backup.main: the chosen subjects, conversion, upload ----
  mpc,                  \* position of main
  margs,                \* [limit, upload, chapter_map]: export count, --upload, --chapter-map
  questions_file,       \* the lines of the questions file
  subject_configs,      \* subject_configs: the chosen subjects, in order
  cfg_idx,              \* index of the config at hand in the conversion loop
  all_converted,
  saved_report,         \* the error report as saved, None before
  subject_db_id,        \* id of the subjects row of the config at hand in the sync loop
  subject_db_mappings   \* subject -> subject_db_id of the run

impVars == <<pc, args, reader, records, early_errors, required_exams,
             required_subjects, required_tag_values, rtv_order, exam_name_to_id,
             subject_old_to_new, tag_cache, tag_value_cache, dummy, cur, result,
             loc, errors_file, db, storage, hist>>

ensVars == <<ens>>

cbVars == <<cpc, chapter_map, raw_chapter_name, chapter_id, cargs, lines_read,
            results, missing_images, error_report, clog>>

upVars == <<upc, items, item_idx, q_id, uploaded_q, uploaded_a, upos, u_success,
            u_failed, updb, buckets, ulog>>

syncVars == <<spc, options, chapter_hierarchy, parent_chapters, sub_chapters,
              existing_by_name, existing_by_id, local_chapter_map, chapters,
              sruns, slog>>

\* The converter's variables that upload_items and the chapter sync leave alone
cbOnly == <<cpc, raw_chapter_name, chapter_id, cargs, lines_read, results,
            missing_images, clog>>

mainVars == <<mpc, margs, questions_file, subject_configs, cfg_idx, all_converted,
              saved_report, subject_db_id, subject_db_mappings>>

vars == <<impVars, ensVars, cbVars, upVars, syncVars, mainVars>>

-----------------------------------------------------------------------------
(* Bounds of the model *)

MaxRows == 2
MaxFaults == 1

NoneVal == "None"
NoId == 0

-----------------------------------------------------------------------------
(* Text helpers *)

Digits == <<"0", "1", "2", "3", "4", "5", "6", "7", "8", "9">>

IsDigit(c) == \E d \in 1..10 : Digits[d] = c

DigitVal(c) == (CHOOSE d \in 1..10 : Digits[d] = c) - 1

RECURSIVE LStrip(_)
LStrip(s) == IF s # <<>> /\ Head(s) = " " THEN LStrip(Tail(s)) ELSE s

RECURSIVE RStrip(_)
RStrip(s) ==
  IF s # <<>> /\ s[Len(s)] = " " THEN RStrip(SubSeq(s, 1, Len(s) - 1)) ELSE s

\* str.strip()
Strip(s) == RStrip(LStrip(s))

RECURSIVE DecValue(_)
DecValue(s) ==
  IF s = <<>> THEN 0
  ELSE 10 * DecValue(SubSeq(s, 1, Len(s) - 1)) + DigitVal(s[Len(s)])

RECURSIVE NatToStr(_)
NatToStr(n) ==
  IF n < 10 THEN <<Digits[n + 1]>>
  ELSE NatToStr(n \div 10) \o <<Digits[(n % 10) + 1]>>

\* str(int)
IntToStr(n) == IF n < 0 THEN <<"-">> \o NatToStr(-n) ELSE NatToStr(n)

\* parse_year: int(str(value).strip()), None on any exception.  The result is
\* <<n>> for an integer n and <<>> for None.  The argument is str(value).
parse_year(value) ==
  LET t == Strip(value)
      signed == t # <<>> /\ Head(t) \in {"+", "-"}
      body == IF signed THEN Tail(t) ELSE t
  IN IF body # <<>> /\ \A i \in 1..Len(body) : IsDigit(body[i])
     THEN <<(IF signed /\ Head(t) = "-" THEN -1 ELSE 1) * DecValue(body)>>
     ELSE <<>>

-----------------------------------------------------------------------------
(* Python dictionaries *)

Get(d, k, default) == IF k \in DOMAIN d THEN d[k] ELSE default

Put(d, k, v) == [x \in DOMAIN d \cup {k} |-> IF x = k THEN v ELSE d[x]]

EmptyDict == [x \in {} |-> NoId]

\* None for a text field
NoText == <<>>

\* str(value) of a text field or of None
PyStr(v) == IF v = NoText THEN <<"N", "o", "n", "e">> ELSE v

-----------------------------------------------------------------------------
(* The legacy reference files and the inputs of the importer *)

DEFAULT_TAGS == <<"paper", "season", "year", "time zone">>

QUESTION_BANK_EXAM_PAPERS == "exam paper"

\* exams: legacy id -> LegacyExam, as loaded by main
exams ==
  [e \in {"e1", "e2"} |->
     [id |-> e, name |-> IF e = "e1" THEN "EB1" ELSE "EB2"]]

\* subjects: legacy id -> LegacySubject, in file order.  s1 and s2 carry the
\* same name under the same exam; s3 belongs to another exam.
SubjectOrder == <<"s1", "s2", "s3">>

subjects ==
  [s \in {"s1", "s2", "s3"} |->
     [id |-> s,
      name |-> IF s = "s3" THEN "Phys" ELSE "Math",
      exam_id |-> IF s = "s3" THEN "e2" ELSE "e1"]]

\* The files present under --pdf-dir
PdfDir == {"q.pdf", "a.pdf"}

Y20 == <<"2", "0">>

BaseRow ==
  [questionBank |-> 2, subject |-> "s1", exam |-> "e1",
   paper |-> <<"1">>, season |-> <<"s">>, year |-> Y20, timezone |-> NoText,
   question_url |-> <<"u", "q.pdf">>, answer_url |-> <<"u", "a.pdf">>]

\* The rows a questions file is drawn from: the base row and rows that differ
\* from it in one field (two for the last).
Rows ==
  { BaseRow,
    [BaseRow EXCEPT !.questionBank = 0],
    [BaseRow EXCEPT !.subject = "s2"],
    [BaseRow EXCEPT !.subject = "s3"],
    [BaseRow EXCEPT !.subject = NoneVal],
    [BaseRow EXCEPT !.subject = "sx"],
    [BaseRow EXCEPT !.exam = NoneVal],
    [BaseRow EXCEPT !.paper = <<"2">>],
    [BaseRow EXCEPT !.paper = NoText],
    [BaseRow EXCEPT !.season = NoText],
    [BaseRow EXCEPT !.year = <<" ", "2", "0">>],
    [BaseRow EXCEPT !.year = <<"a">>],
    [BaseRow EXCEPT !.year = NoText],
    [BaseRow EXCEPT !.timezone = <<"z">>],
    [BaseRow EXCEPT !.question_url = NoText],
    [BaseRow EXCEPT !.question_url = <<"u", "qm.pdf">>],
    [BaseRow EXCEPT !.answer_url = NoText],
    [BaseRow EXCEPT !.answer_url = <<"u", "am.pdf">>],
    [BaseRow EXCEPT !.subject = "s2", !.paper = <<"2">>] }

-----------------------------------------------------------------------------
(* The remote backend: tables and the bucket *)

EmptyDb ==
  [exam_boards |-> {}, subjects |-> {}, subject_exam_tags |-> {},
   subject_exam_tag_values |-> {}, exam_papers |-> {},
   exam_paper_tag_values |-> {},
   seq |-> [t \in {"exam_boards", "subjects", "subject_exam_tags",
                   "subject_exam_tag_values", "exam_papers"} |-> 0]]

\* upsert(payload, on_conflict=cols): the row that agrees with the payload on
\* the conflict columns is overwritten and keeps its id, otherwise a row with
\* the next id of the table is inserted.  An absent exam_board_id is a key
\* value like any other.
UpsertRow(rows, payload, on_conflict, new_id) ==
  LET hit == {r \in rows : \A c \in on_conflict : r[c] = payload[c]}
  IN IF hit # {}
     THEN LET old == CHOOSE r \in hit : TRUE
              new == [f \in DOMAIN old |->
                        IF f \in DOMAIN payload THEN payload[f] ELSE old[f]]
          IN [rows |-> (rows \ {old}) \cup {new}, id |-> old.id, inserted |-> FALSE]
     ELSE [rows |-> rows \cup {Put(payload, "id", new_id)},
           id |-> new_id, inserted |-> TRUE]

\* table(t).upsert(payload, on_conflict).execute() on database d: the database
\* afterwards and resp.data
Upsert(d, t, payload, on_conflict) ==
  LET u == UpsertRow(d[t], payload, on_conflict, d.seq[t] + 1)
  IN [db |-> [d EXCEPT ![t] = u.rows,
                       !.seq[t] = IF u.inserted THEN @ + 1 ELSE @],
      data |-> <<[id |-> u.id]>>]

\* What a remote call can do: succeed, answer with no data, or raise.
Outcomes == {"ok", "nodata", "raise"}

-----------------------------------------------------------------------------
(* Supabase helpers of bulk_import_exam_papers.py.  Each takes the database
   d and the outcome of its remote call and gives the database afterwards,
   the returned id, whether a remote call was issued and whether it raised. *)

\* Variant of EnsureResult that makes up an id when the upsert answers
\* without data
EnsureResult_Guess(d, t, payload, on_conflict, dry_run, outcome) ==
  IF dry_run
  THEN [db |-> d, id |-> NoId, called |-> FALSE, raised |-> FALSE]
  ELSE IF outcome = "ok"
       THEN LET u == Upsert(d, t, payload, on_conflict)
            IN [db |-> u.db, id |-> u.data[1].id, called |-> TRUE, raised |-> FALSE]
       ELSE [db |-> d, id |-> IF outcome = "nodata" THEN d.seq[t] + 1 ELSE NoId,
             called |-> TRUE, raised |-> outcome = "raise"]

EnsureResult(d, t, payload, on_conflict, dry_run, outcome) ==
  IF dry_run
  THEN [db |-> d, id |-> NoId, called |-> FALSE, raised |-> FALSE]
  ELSE IF outcome = "ok"
       THEN LET u == Upsert(d, t, payload, on_conflict)
            IN [db |-> u.db, id |-> u.data[1].id, called |-> TRUE, raised |-> FALSE]
       ELSE [db |-> d, id |-> NoId, called |-> TRUE, raised |-> outcome = "raise"]

ensure_exam_board(d, name, dry_run, outcome) ==
  EnsureResult(d, "exam_boards",
               [name |-> name, question_bank |-> QUESTION_BANK_EXAM_PAPERS],
               {"name"}, dry_run, outcome)

\* Variant of ensure_subject whose upsert conflicts on the name alone
ensure_subject_ByName(d, name, exam_board_id, dry_run, outcome) ==
  EnsureResult(d, "subjects",
               [name |-> name, exam_board_id |-> exam_board_id],
               {"name"}, dry_run, outcome)

\* payload["exam_board_id"] is set only when exam_board_id is not None; the
\* column is then NULL (NoId).
ensure_subject(d, name, exam_board_id, dry_run, outcome) ==
  EnsureResult(d, "subjects",
               [name |-> name, exam_board_id |-> exam_board_id],
               {"name", "exam_board_id"}, dry_run, outcome)

ensure_tag(d, subject_id, name, position, dry_run, outcome) ==
  EnsureResult(d, "subject_exam_tags",
               [subject_id |-> subject_id, name |-> name, position |-> position],
               {"subject_id", "name"}, dry_run, outcome)

ensure_tag_value(d, tag_id, value, dry_run, outcome) ==
  EnsureResult(d, "subject_exam_tag_values",
               [tag_id |-> tag_id, value |-> value],
               {"tag_id", "value"}, dry_run, outcome)

-----------------------------------------------------------------------------
(* History helpers *)

\* A remote call with this outcome may be taken: the failures of the calls
\* that write or query are bounded, those of the rollback calls are not.
Allowed(outcome) == outcome = "ok" \/ hist.faults < MaxFaults

Issue(h, kind, outcome) ==
  [h EXCEPT !.issued = @ \cup {kind},
            !.faults = IF outcome = "ok" THEN @ ELSE @ + 1]

\* The same for a call made in the iteration of record i
IssueFor(h, i, kind, outcome) ==
  [Issue(h, kind, outcome) EXCEPT
     !.rcalls = @ \cup {<<i, kind>>},
     !.count = Put(@, <<i, kind>>, Get(@, <<i, kind>>, 0) + 1)]

\* A call of an ensure_* helper by the upsert phases; key names the entity,
\* which is remembered when the call answered without an id.
EnsureKeyOf(kind, subj, name, val) ==
  [kind |-> kind, subj |-> subj, name |-> name, val |-> val]

IssueEnsure(h, key, outcome) ==
  [Issue(h, "upsert", outcome) EXCEPT
     !.noid = IF outcome = "nodata" THEN @ \cup {key} ELSE @]

\* A rollback call made for record i
Cleanup(h, i, kind, outcome) ==
  [h EXCEPT !.issued = @ \cup {kind},
            !.rcalls = @ \cup {<<i, kind>>},
            !.cleanup_failed = IF outcome = "ok" THEN @ ELSE @ \cup {i}]

-----------------------------------------------------------------------------
(* collect_records *)

NoTags == [t \in {"paper", "season", "year", "time zone"} |-> {}]

\* Variant of HasRequiredFields that does not test the season
HasRequiredFields_NoSeason(rec) ==
  ~ ( rec.subject = NoneVal \/ rec.exam = NoneVal \/ rec.paper = NoText
      \/ parse_year(PyStr(rec.year)) = <<>>
      \/ rec.question_url = NoText )

\* The row passes the required-field test of collect_records.
HasRequiredFields(rec) ==
  ~ ( rec.subject = NoneVal \/ rec.exam = NoneVal \/ rec.paper = NoText
      \/ rec.season = NoText \/ parse_year(PyStr(rec.year)) = <<>>
      \/ rec.question_url = NoText )

\* One iteration of the loop of collect_records over the row rec, read as
\* line k of the questions file.
CollectRow(rec, k) ==
  IF rec.questionBank # 2
  THEN UNCHANGED <<records, early_errors, required_exams, required_subjects,
                   required_tag_values, rtv_order>>
  ELSE IF ~HasRequiredFields(rec)
  THEN /\ early_errors' =
            Append(early_errors, [reason |-> "missing fields/question url", record |-> k])
       /\ UNCHANGED <<records, required_exams, required_subjects,
                      required_tag_values, rtv_order>>
  ELSE IF rec.subject \notin DOMAIN subjects \/ rec.exam \notin DOMAIN exams
  THEN /\ early_errors' =
            Append(early_errors, [reason |-> "legacy subject/exam not found", record |-> k])
       /\ UNCHANGED <<records, required_exams, required_subjects,
                      required_tag_values, rtv_order>>
  ELSE LET subj_obj == subjects[rec.subject]
           exam_obj == exams[rec.exam]
           tz == rec.timezone
           old == required_tag_values[subj_obj.id]
           new == [old EXCEPT
                     !["paper"] = @ \cup {rec.paper},
                     !["season"] = @ \cup {rec.season},
                     !["year"] = @ \cup {PyStr(rec.year)},
                     !["time zone"] = IF tz # NoText THEN @ \cup {tz} ELSE @]
       IN /\ required_exams' = required_exams \cup {exam_obj.name}
          /\ required_subjects' =
               [required_subjects EXCEPT ![exam_obj.name] = @ \cup {subj_obj.name}]
          /\ required_tag_values' = [required_tag_values EXCEPT ![subj_obj.id] = new]
          /\ rtv_order' = IF \E j \in 1..Len(rtv_order) : rtv_order[j] = subj_obj.id
                          THEN rtv_order ELSE Append(rtv_order, subj_obj.id)
          /\ records' = Append(records,
               [raw |-> k, subject_old |-> subj_obj.id, exam_old |-> exam_obj.id,
                paper |-> rec.paper, season |-> rec.season,
                year |-> parse_year(PyStr(rec.year))[1],
                timezone |-> tz,
                question_url |-> rec.question_url, answer_url |-> rec.answer_url])
          /\ UNCHANGED early_errors

\* No row at hand
NoRow == [BaseRow EXCEPT !.questionBank = -1]

\* Variant of Collect that upserts the exam board of each row as it is read
Collect_Eager ==
  /\ pc = "collect"
  /\ reader.lines < MaxRows
  /\ \E rec \in Rows :
       /\ reader' = [lines |-> reader.lines + 1, rec |-> rec]
       /\ CollectRow(rec, reader.lines + 1)
       /\ hist' = [Issue(hist, "upsert", "ok") EXCEPT
                     !.rows2 = IF rec.questionBank = 2 THEN @ + 1 ELSE @]
  /\ UNCHANGED <<pc, args, exam_name_to_id, subject_old_to_new, tag_cache,
                 tag_value_cache, dummy, cur, result, loc, errors_file, db,
                 storage>>
  /\ UNCHANGED <<ensVars, cbVars, upVars, syncVars, mainVars>>

\* main reads the next row of the questions file inside collect_records.
Collect ==
  /\ pc = "collect"
  /\ reader.lines < MaxRows
  /\ \E rec \in Rows :
       /\ reader' = [lines |-> reader.lines + 1, rec |-> rec]
       /\ CollectRow(rec, reader.lines + 1)
       /\ hist' = [hist EXCEPT !.rows2 = IF rec.questionBank = 2 THEN @ + 1 ELSE @]
  /\ UNCHANGED <<pc, args, exam_name_to_id, subject_old_to_new, tag_cache,
                 tag_value_cache, dummy, cur, result, loc, errors_file, db,
                 storage>>
  /\ UNCHANGED <<ensVars, cbVars, upVars, syncVars, mainVars>>

\* append_error
append_error(file, rec, reason) == Append(file, [reason |-> reason, record |-> rec])

RECURSIVE AppendEarly(_, _)
AppendEarly(file, errs) ==
  IF errs = <<>> THEN file
  ELSE AppendEarly(append_error(file, Head(errs).record, Head(errs).reason), Tail(errs))

\* Variant of Live that ignores the dry-run flag
Live_CredsOnly == args.creds

\* The client exists and the run is live: the guard of every remote call.
Live == ~args.dry_run /\ args.creds

-----------------------------------------------------------------------------
(* main: the upsert phases (exam boards, subjects, tags and tag values) *)

\* Variant of NextDummy that hands out the same placeholder again
NextDummy_Same(d, kind) == d

\* dummy_subject_id -= 1, dummy_tag_id -= 1, dummy_value_id -= 1
NextDummy(d, kind) == [d EXCEPT ![kind] = @ - 1]

InitCur == [exams_left |-> {}, si |-> 1, k |-> 1, ti |-> 1, vleft |-> {}]

InRtv(subj_id) == \E j \in 1..Len(rtv_order) : rtv_order[j] = subj_id

\* The next legacy subject, from position si on, that is in required_tag_values
NextSubj(si) ==
  LET c == {j \in si..Len(SubjectOrder) : InRtv(SubjectOrder[j])}
  IN IF c = {} THEN Len(SubjectOrder) + 1 ELSE CHOOSE j \in c : \A x \in c : j <= x

\* The next key of required_tag_values, from position k on, whose target subject
\* id is truthy
NextTagSubj(k, son) ==
  LET c == {j \in k..Len(rtv_order) : Get(son, rtv_order[j], NoId) # NoId}
  IN IF c = {} THEN Len(rtv_order) + 1 ELSE CHOOSE j \in c : \A x \in c : j <= x

\* Where main stands once the tag loop has reached key k
GoTags(son, k) ==
  LET j == NextTagSubj(k, son)
  IN IF j <= Len(rtv_order)
     THEN [pc |-> "tags", cur |-> [InitCur EXCEPT !.k = j]]
     ELSE [pc |-> "loop", cur |-> InitCur]

\* Where main stands once the subject loop has reached position si
GoSubjects(son, si) ==
  LET j == NextSubj(si)
  IN IF j <= Len(SubjectOrder)
     THEN [pc |-> "subjects", cur |-> [InitCur EXCEPT !.si = j]]
     ELSE GoTags(son, 1)

\* Where main stands once the exam names in left remain to be upserted
GoExams(left) ==
  IF left # {}
  THEN [pc |-> "exam_boards", cur |-> [InitCur EXCEPT !.exams_left = left]]
  ELSE GoSubjects(EmptyDict, 1)

\* collect_records returns; main builds the client (require_service_key exits
\* when a live run has no credentials) and writes the early errors.
MakeClient ==
  /\ pc = "collect"
  /\ reader' = [reader EXCEPT !.rec = NoRow]
  /\ hist' = [hist EXCEPT !.plan = <<records, early_errors, required_exams,
                                     required_subjects, required_tag_values>>]
  /\ IF ~args.dry_run /\ ~args.creds
     THEN /\ pc' = "aborted"
          /\ UNCHANGED <<errors_file, cur>>
     ELSE /\ pc' = GoExams(required_exams).pc
          /\ cur' = GoExams(required_exams).cur
          /\ errors_file' = AppendEarly(errors_file, early_errors)
  /\ UNCHANGED <<args, records, early_errors, required_exams,
                 required_subjects, required_tag_values, rtv_order,
                 exam_name_to_id, subject_old_to_new, tag_cache, tag_value_cache,
                 dummy, result, loc, db, storage>>
  /\ UNCHANGED <<ensVars, cbVars, upVars, syncVars, mainVars>>

\* One iteration of "for exam_name in required_exams"
UpsertExamBoard ==
  /\ pc = "exam_boards"
  /\ \E exam_name \in cur.exams_left, outcome \in Outcomes :
       /\ IF Live THEN Allowed(outcome) ELSE outcome = "ok"
       /\ LET r == ensure_exam_board(db, exam_name, ~Live, outcome)
              go == GoExams(cur.exams_left \ {exam_name})
          IN IF r.raised
             THEN /\ pc' = "crashed"
                  /\ hist' = Issue(hist, "upsert", outcome)
                  /\ UNCHANGED <<exam_name_to_id, cur, db>>
             ELSE /\ pc' = go.pc
                  /\ cur' = go.cur
                  /\ db' = r.db
                  /\ exam_name_to_id' = Put(exam_name_to_id, exam_name, r.id)
                  /\ hist' = IF r.called THEN IssueEnsure(hist, EnsureKeyOf("exam_board", NoneVal, exam_name, NoText), outcome)
                             ELSE hist
  /\ UNCHANGED <<args, reader, records, early_errors, required_exams,
                 required_subjects, required_tag_values, rtv_order,
                 subject_old_to_new, tag_cache, tag_value_cache, dummy, result,
                 loc, errors_file, storage>>
  /\ UNCHANGED <<ensVars, cbVars, upVars, syncVars, mainVars>>

\* One iteration of "for subj_id, subj in subjects.items()" that passes the
\* test "subj_id in required_tag_values"
UpsertSubject ==
  /\ pc = "subjects"
  /\ \E outcome \in Outcomes :
       /\ IF Live THEN Allowed(outcome) ELSE outcome = "ok"
       /\ LET subj_id == SubjectOrder[cur.si]
              subj == subjects[subj_id]
              exam_name == IF subj.exam_id \in DOMAIN exams
                           THEN exams[subj.exam_id].name ELSE NoneVal
              eb_id == IF exam_name # NoneVal
                       THEN Get(exam_name_to_id, exam_name, NoId) ELSE NoId
              r == ensure_subject(db, subj.name, eb_id, ~Live, outcome)
              son == Put(subject_old_to_new, subj_id,
                         IF Live THEN r.id ELSE dummy.subject)
              go == GoSubjects(son, cur.si + 1)
          IN IF r.raised
             THEN /\ pc' = "crashed"
                  /\ hist' = Issue(hist, "upsert", outcome)
                  /\ UNCHANGED <<subject_old_to_new, cur, db, dummy>>
             ELSE /\ pc' = go.pc
                  /\ cur' = go.cur
                  /\ db' = r.db
                  /\ subject_old_to_new' = son
                  /\ dummy' = IF Live THEN dummy ELSE NextDummy(dummy, "subject")
                  /\ hist' = IF r.called THEN IssueEnsure(hist, EnsureKeyOf("subject", subj_id, subj.name, NoText), outcome)
                             ELSE hist
  /\ UNCHANGED <<args, reader, records, early_errors, required_exams,
                 required_subjects, required_tag_values, rtv_order,
                 exam_name_to_id, tag_cache, tag_value_cache, result, loc,
                 errors_file, storage>>
  /\ UNCHANGED <<ensVars, cbVars, upVars, syncVars, mainVars>>

\* The (tag, value) pairs the value loop of a subject visits: the tags of
\* tags_needed that made it into the tag cache
ValuesToEnsure(subj_old, tags_of_subject) ==
  UNION { {<<DEFAULT_TAGS[t], v>> : v \in
             IF DEFAULT_TAGS[t] \in DOMAIN tags_of_subject
             THEN required_tag_values[subj_old][DEFAULT_TAGS[t]] ELSE {}}
          : t \in 1..Len(DEFAULT_TAGS) }

\* One iteration of "for tag_name in DEFAULT_TAGS" for the subject at key k;
\* the first one follows the reset of the two caches of the subject.
EnsureTagStep ==
  /\ pc = "tags"
  /\ cur.ti <= Len(DEFAULT_TAGS)
  /\ \E outcome \in Outcomes :
       /\ IF Live THEN Allowed(outcome) ELSE outcome = "ok"
       /\ LET subj_old == rtv_order[cur.k]
              subj_new == subject_old_to_new[subj_old]
              tag_name == DEFAULT_TAGS[cur.ti]
              tc0 == IF cur.ti = 1 THEN Put(tag_cache, subj_new, EmptyDict) ELSE tag_cache
              vc0 == IF cur.ti = 1 THEN Put(tag_value_cache, subj_new, EmptyDict)
                     ELSE tag_value_cache
              r == ensure_tag(db, subj_new, tag_name, cur.ti, ~Live, outcome)
              tag_id == IF Live THEN r.id ELSE dummy.tag
              tc1 == IF tag_id # NoId
                     THEN Put(tc0, subj_new, Put(tc0[subj_new], tag_name, tag_id)) ELSE tc0
              vc1 == IF tag_id # NoId
                     THEN Put(vc0, subj_new, Put(vc0[subj_new], tag_name, EmptyDict)) ELSE vc0
              todo == ValuesToEnsure(subj_old, tc1[subj_new])
              go == IF cur.ti < Len(DEFAULT_TAGS)
                    THEN [pc |-> "tags", cur |-> [cur EXCEPT !.ti = @ + 1]]
                    ELSE IF todo # {}
                    THEN [pc |-> "tags", cur |-> [cur EXCEPT !.ti = @ + 1, !.vleft = todo]]
                    ELSE GoTags(subject_old_to_new, cur.k + 1)
          IN IF r.raised
             THEN /\ pc' = "crashed"
                  /\ hist' = Issue(hist, "upsert", outcome)
                  /\ tag_cache' = tc0
                  /\ tag_value_cache' = vc0
                  /\ UNCHANGED <<cur, db, dummy>>
             ELSE /\ pc' = go.pc
                  /\ cur' = go.cur
                  /\ db' = r.db
                  /\ tag_cache' = tc1
                  /\ tag_value_cache' = vc1
                  /\ dummy' = IF Live THEN dummy ELSE NextDummy(dummy, "tag")
                  /\ hist' = IF r.called THEN IssueEnsure(hist, EnsureKeyOf("tag", subj_old, tag_name, NoText), outcome)
                             ELSE hist
  /\ UNCHANGED <<args, reader, records, early_errors, required_exams,
                 required_subjects, required_tag_values, rtv_order,
                 exam_name_to_id, subject_old_to_new, result, loc, errors_file,
                 storage>>
  /\ UNCHANGED <<ensVars, cbVars, upVars, syncVars, mainVars>>

\* The tag whose values the value loop is at: tags_needed keeps the order in
\* which collect_records fills it, which is that of DEFAULT_TAGS.
CurrentTag(vleft) ==
  LET c == {t \in 1..Len(DEFAULT_TAGS) : \E p \in vleft : p[1] = DEFAULT_TAGS[t]}
  IN DEFAULT_TAGS[CHOOSE t \in c : \A x \in c : t <= x]

\* One iteration of "for val in values"; a set is visited in any order.
EnsureTagValueStep ==
  /\ pc = "tags"
  /\ cur.ti > Len(DEFAULT_TAGS)
  /\ \E p \in cur.vleft, outcome \in Outcomes :
       /\ p[1] = CurrentTag(cur.vleft)
       /\ IF Live THEN Allowed(outcome) ELSE outcome = "ok"
       /\ LET subj_old == rtv_order[cur.k]
              subj_new == subject_old_to_new[subj_old]
              tag_name == p[1]
              val == p[2]
              r == ensure_tag_value(db, tag_cache[subj_new][tag_name], val, ~Live, outcome)
              new_id == IF Live THEN r.id ELSE dummy.value
              cache == Get(tag_value_cache[subj_new], tag_name, EmptyDict)
              vc1 == Put(tag_value_cache, subj_new,
                         Put(tag_value_cache[subj_new], tag_name,
                             IF new_id # NoId THEN Put(cache, val, new_id) ELSE cache))
              left == cur.vleft \ {p}
              go == IF left # {}
                    THEN [pc |-> "tags", cur |-> [cur EXCEPT !.vleft = left]]
                    ELSE GoTags(subject_old_to_new, cur.k + 1)
          IN IF r.raised
             THEN /\ pc' = "crashed"
                  /\ hist' = Issue(hist, "upsert", outcome)
                  /\ UNCHANGED <<cur, db, dummy, tag_value_cache>>
             ELSE /\ pc' = go.pc
                  /\ cur' = go.cur
                  /\ db' = r.db
                  /\ tag_value_cache' = vc1
                  /\ dummy' = IF Live THEN dummy ELSE NextDummy(dummy, "value")
                  /\ hist' = IF r.called THEN IssueEnsure(hist, EnsureKeyOf("value", subj_old, tag_name, val), outcome)
                             ELSE hist
  /\ UNCHANGED <<args, reader, records, early_errors, required_exams,
                 required_subjects, required_tag_values, rtv_order,
                 exam_name_to_id, subject_old_to_new, tag_cache, result, loc,
                 errors_file, storage>>
  /\ UNCHANGED <<ensVars, cbVars, upVars, syncVars, mainVars>>

-----------------------------------------------------------------------------
(* main: the record loop *)

LocInit(i) ==
  [i |-> i, subj_new |-> NoId, tv |-> <<>>, tz_tag_id |-> NoId,
   uploaded_paths |-> <<>>, question_path |-> NoText, mark_path |-> NoText,
   paper_id |-> NoId]

\* local_pdf: the file name of the URL under pdf_dir, None without a URL
local_pdf(url) == IF url = NoText THEN NoneVal ELSE url[Len(url)]

\* Path.exists() under pdf_dir
Exists(path) == path \in PdfDir

Range(q) == {q[j] : j \in 1..Len(q)}

\* Variant of Counted that raises the counter by two
Counted_Twice(res, status) == [res EXCEPT ![status] = @ + 2]

Counted(res, status) == [res EXCEPT ![status] = @ + 1]

Ended(h, i, status) == [h EXCEPT !.outcome = Put(@, i, status)]

\* Variant of CapReached that counts every processed record
CapReached_Processed(n_paper, res) == n_paper # <<>> /\ res.processed >= n_paper[1]

\* The test that ends the loop early: "--n-paper" counts imported records.
CapReached(n_paper, res) == n_paper # <<>> /\ res.imported >= n_paper[1]

\* The start of an iteration of "for rec in records": the cap test, the
\* lookups in the caches and the test of the local files.  A live run goes on
\* to the existence query; a dry run logs and counts the record as imported.
LoopHead ==
  /\ pc = "loop"
  /\ IF loc.i > Len(records) \/ CapReached(args.n_paper, result)
     THEN /\ pc' = "done"
          /\ UNCHANGED <<result, loc, errors_file, hist>>
     ELSE LET rec == records[loc.i]
              res == Counted(result, "processed")
              subj_new == Get(subject_old_to_new, rec.subject_old, NoId)
              vals == Get(tag_value_cache, subj_new, EmptyDict)
              paper_tag_id == Get(Get(vals, "paper", EmptyDict), rec.paper, NoId)
              season_tag_id == Get(Get(vals, "season", EmptyDict), rec.season, NoId)
              year_tag_id == Get(Get(vals, "year", EmptyDict), IntToStr(rec.year), NoId)
              tz_tag_id == IF rec.timezone # NoText
                           THEN Get(Get(vals, "time zone", EmptyDict), rec.timezone, NoId)
                           ELSE NoId
              qp_local == local_pdf(rec.question_url)
              ms_local == local_pdf(rec.answer_url)
              missing_files ==
                (IF ~Exists(qp_local) THEN {qp_local} ELSE {})
                \cup (IF ms_local # NoneVal /\ ~Exists(ms_local) THEN {ms_local} ELSE {})
              reason ==
                IF subj_new = NoId THEN "subject unresolved"
                ELSE IF paper_tag_id = NoId \/ season_tag_id = NoId \/ year_tag_id = NoId
                THEN "tag value missing"
                ELSE IF qp_local = NoneVal THEN "question pdf missing (url absent)"
                ELSE IF missing_files # {} THEN "missing pdf"
                ELSE NoneVal
          IN IF reason # NoneVal
             THEN /\ errors_file' = append_error(errors_file, rec.raw, reason)
                  /\ result' = [Counted(res, "failed") EXCEPT
                                  !.pdf_missing = IF reason = "missing pdf" THEN @ + 1 ELSE @]
                  /\ hist' = Ended(hist, loc.i, "failed")
                  /\ loc' = LocInit(loc.i + 1)
                  /\ pc' = "loop"
             ELSE IF Live
             THEN /\ pc' = "dup"
                  /\ result' = res
                  /\ loc' = [LocInit(loc.i) EXCEPT
                               !.subj_new = subj_new,
                               !.tv = <<paper_tag_id, season_tag_id, year_tag_id>>,
                               !.tz_tag_id = tz_tag_id]
                  /\ UNCHANGED <<errors_file, hist>>
             ELSE /\ pc' = "loop"
                  /\ result' = Counted(res, "imported")
                  /\ hist' = Ended(hist, loc.i, "imported")
                  /\ loc' = LocInit(loc.i + 1)
                  /\ UNCHANGED errors_file
  /\ UNCHANGED <<args, reader, records, early_errors, required_exams,
                 required_subjects, required_tag_values, rtv_order,
                 exam_name_to_id, subject_old_to_new, tag_cache, tag_value_cache,
                 dummy, cur, db, storage>>
  /\ UNCHANGED <<ensVars, cbVars, upVars, syncVars, mainVars>>

CallOutcomes == {"ok", "raise"}

\* Variant of DupRows whose query does not filter on paper_code
DupRows_NoPaper(d, subj_new, rec) ==
  {r \in d.exam_papers : /\ r.subject_id = subj_new
                         /\ r.year = rec.year
                         /\ r.season = rec.season}

\* The rows the existence query returns
DupRows(d, subj_new, rec) ==
  {r \in d.exam_papers : /\ r.subject_id = subj_new
                         /\ r.year = rec.year
                         /\ r.season = rec.season
                         /\ r.paper_code = rec.paper}

\* The existence query on exam_papers; a hit skips the record, otherwise the
\* upload paths are chosen.  An exception reaches the outer handler.
DupSelect ==
  /\ pc = "dup"
  /\ \E outcome \in CallOutcomes :
       /\ Allowed(outcome)
       /\ LET rec == records[loc.i]
              h == IssueFor(hist, loc.i, "select", outcome)
              ms_local == local_pdf(rec.answer_url)
          IN IF outcome = "raise"
             THEN /\ errors_file' = append_error(errors_file, rec.raw, "exception")
                  /\ result' = Counted(result, "failed")
                  /\ hist' = Ended(h, loc.i, "failed")
                  /\ loc' = LocInit(loc.i + 1)
                  /\ pc' = "loop"
             ELSE IF DupRows(db, loc.subj_new, rec) # {}
             THEN /\ result' = Counted(result, "skipped")
                  /\ hist' = Ended(h, loc.i, "skipped")
                  /\ loc' = LocInit(loc.i + 1)
                  /\ pc' = "loop"
                  /\ UNCHANGED errors_file
             ELSE /\ loc' = [loc EXCEPT
                               !.question_path = <<loc.i, "question.pdf">>,
                               !.mark_path = IF ms_local # NoneVal
                                             THEN <<loc.i, "mark-scheme.pdf">> ELSE NoText]
                  /\ hist' = h
                  /\ pc' = "upload_q"
                  /\ UNCHANGED <<errors_file, result>>
  /\ UNCHANGED <<args, reader, records, early_errors, required_exams,
                 required_subjects, required_tag_values, rtv_order,
                 exam_name_to_id, subject_old_to_new, tag_cache, tag_value_cache,
                 dummy, cur, db, storage>>
  /\ UNCHANGED <<ensVars, cbVars, upVars, syncVars, mainVars>>

\* Upload of the question paper
UploadQuestion ==
  /\ pc = "upload_q"
  /\ \E outcome \in CallOutcomes :
       /\ Allowed(outcome)
       /\ LET rec == records[loc.i]
              h == IssueFor(hist, loc.i, "upload", outcome)
          IN IF outcome = "ok"
             THEN /\ storage' = storage \cup {loc.question_path}
                  /\ loc' = [loc EXCEPT !.uploaded_paths = Append(@, loc.question_path)]
                  /\ pc' = IF loc.mark_path # NoText THEN "upload_ms" ELSE "insert"
                  /\ hist' = h
                  /\ UNCHANGED <<errors_file, result>>
             ELSE /\ errors_file' = append_error(errors_file, rec.raw, "upload question failed")
                  /\ result' = Counted(result, "failed")
                  /\ hist' = Ended(h, loc.i, "failed")
                  /\ loc' = LocInit(loc.i + 1)
                  /\ pc' = "loop"
                  /\ UNCHANGED storage
  /\ UNCHANGED <<args, reader, records, early_errors, required_exams,
                 required_subjects, required_tag_values, rtv_order,
                 exam_name_to_id, subject_old_to_new, tag_cache, tag_value_cache,
                 dummy, cur, db>>
  /\ UNCHANGED <<ensVars, cbVars, upVars, syncVars, mainVars>>

\* Variant of AfterFailure in which the failure of a step escapes the loop
AfterFailure_Crash(l) == [pc |-> "crashed", loc |-> l]

\* Variant of AfterFailure that leaves the uploaded files in place
AfterFailure_NoCleanup(l) == [pc |-> "loop", loc |-> LocInit(l.i + 1)]

\* Where a failed step goes: to the removal of the uploaded files when there
\* are any, else to the next record
AfterFailure(l) ==
  IF l.uploaded_paths # <<>>
  THEN [pc |-> "remove", loc |-> l]
  ELSE [pc |-> "loop", loc |-> LocInit(l.i + 1)]

\* Upload of the mark scheme
UploadMarkScheme ==
  /\ pc = "upload_ms"
  /\ \E outcome \in CallOutcomes :
       /\ Allowed(outcome)
       /\ LET rec == records[loc.i]
              h == IssueFor(hist, loc.i, "upload", outcome)
          IN IF outcome = "ok"
             THEN /\ storage' = storage \cup {loc.mark_path}
                  /\ loc' = [loc EXCEPT !.uploaded_paths = Append(@, loc.mark_path)]
                  /\ pc' = "insert"
                  /\ hist' = h
                  /\ UNCHANGED <<errors_file, result>>
             ELSE /\ errors_file' = append_error(errors_file, rec.raw, "upload mark scheme failed")
                  /\ result' = Counted(result, "failed")
                  /\ hist' = Ended(h, loc.i, "failed")
                  /\ loc' = AfterFailure(loc).loc
                  /\ pc' = AfterFailure(loc).pc
                  /\ UNCHANGED storage
  /\ UNCHANGED <<args, reader, records, early_errors, required_exams,
                 required_subjects, required_tag_values, rtv_order,
                 exam_name_to_id, subject_old_to_new, tag_cache, tag_value_cache,
                 dummy, cur, db>>
  /\ UNCHANGED <<ensVars, cbVars, upVars, syncVars, mainVars>>

\* The row main inserts into exam_papers
PaperRow(id, l, rec) ==
  [id |-> id, subject_id |-> l.subj_new, year |-> rec.year, season |-> rec.season,
   paper_code |-> rec.paper, paper_label |-> rec.paper, time_zone |-> rec.timezone,
   question_paper_path |-> l.question_path, mark_scheme_path |-> l.mark_path]

\* Insert of the exam_papers row
InsertPaper ==
  /\ pc = "insert"
  /\ \E outcome \in CallOutcomes :
       /\ Allowed(outcome)
       /\ LET rec == records[loc.i]
              h == IssueFor(hist, loc.i, "insert", outcome)
              id == db.seq["exam_papers"] + 1
          IN IF outcome = "ok"
             THEN /\ db' = [db EXCEPT !.exam_papers = @ \cup {PaperRow(id, loc, rec)},
                                      !.seq["exam_papers"] = id]
                  /\ loc' = [loc EXCEPT !.paper_id = id]
                  /\ pc' = "link"
                  /\ hist' = h
                  /\ UNCHANGED <<errors_file, result>>
             ELSE /\ errors_file' = append_error(errors_file, rec.raw, "create exam paper failed")
                  /\ result' = Counted(result, "failed")
                  /\ hist' = Ended(h, loc.i, "failed")
                  /\ loc' = AfterFailure(loc).loc
                  /\ pc' = AfterFailure(loc).pc
                  /\ UNCHANGED db
  /\ UNCHANGED <<args, reader, records, early_errors, required_exams,
                 required_subjects, required_tag_values, rtv_order,
                 exam_name_to_id, subject_old_to_new, tag_cache, tag_value_cache,
                 dummy, cur, storage>>
  /\ UNCHANGED <<ensVars, cbVars, upVars, syncVars, mainVars>>

\* tv_rows
TvRows(l) ==
  {[exam_paper_id |-> l.paper_id, tag_value_id |-> tv] :
     tv \in (Range(l.tv) \cup {l.tz_tag_id}) \ {NoId}}

\* Upsert of the exam_paper_tag_values rows; success counts the record as
\* imported, failure starts the rollback.
LinkTagValues ==
  /\ pc = "link"
  /\ \E outcome \in CallOutcomes :
       /\ Allowed(outcome)
       /\ LET rec == records[loc.i]
              h == IssueFor(hist, loc.i, "upsert", outcome)
          IN IF outcome = "ok"
             THEN /\ db' = [db EXCEPT !.exam_paper_tag_values = @ \cup TvRows(loc)]
                  /\ result' = Counted(result, "imported")
                  /\ hist' = Ended(h, loc.i, "imported")
                  /\ loc' = LocInit(loc.i + 1)
                  /\ pc' = "loop"
                  /\ UNCHANGED errors_file
             ELSE /\ errors_file' = append_error(errors_file, rec.raw, "tag value upsert failed")
                  /\ result' = Counted(result, "failed")
                  /\ hist' = Ended(h, loc.i, "failed")
                  /\ pc' = "delete"
                  /\ UNCHANGED <<db, loc>>
  /\ UNCHANGED <<args, reader, records, early_errors, required_exams,
                 required_subjects, required_tag_values, rtv_order,
                 exam_name_to_id, subject_old_to_new, tag_cache, tag_value_cache,
                 dummy, cur, storage>>
  /\ UNCHANGED <<ensVars, cbVars, upVars, syncVars, mainVars>>

\* Rollback: delete of the exam_papers row; a failure is logged only.
DeletePaper ==
  /\ pc = "delete"
  /\ \E outcome \in CallOutcomes :
       /\ db' = IF outcome = "ok"
                THEN [db EXCEPT !.exam_papers = {r \in @ : r.id # loc.paper_id}]
                ELSE db
       /\ hist' = Cleanup(hist, loc.i, "delete", outcome)
       /\ loc' = AfterFailure(loc).loc
       /\ pc' = AfterFailure(loc).pc
  /\ UNCHANGED <<args, reader, records, early_errors, required_exams,
                 required_subjects, required_tag_values, rtv_order,
                 exam_name_to_id, subject_old_to_new, tag_cache, tag_value_cache,
                 dummy, cur, result, errors_file, storage>>
  /\ UNCHANGED <<ensVars, cbVars, upVars, syncVars, mainVars>>

\* Rollback: removal of the uploaded files; a failure is logged only.
RemoveUploaded ==
  /\ pc = "remove"
  /\ \E outcome \in CallOutcomes :
       /\ storage' = IF outcome = "ok" THEN storage \ Range(loc.uploaded_paths) ELSE storage
       /\ hist' = Cleanup(hist, loc.i, "remove", outcome)
       /\ loc' = LocInit(loc.i + 1)
       /\ pc' = "loop"
  /\ UNCHANGED <<args, reader, records, early_errors, required_exams,
                 required_subjects, required_tag_values, rtv_order,
                 exam_name_to_id, subject_old_to_new, tag_cache, tag_value_cache,
                 dummy, cur, result, errors_file, db>>
  /\ UNCHANGED <<ensVars, cbVars, upVars, syncVars, mainVars>>

-----------------------------------------------------------------------------
(* The importer as a state machine *)

\* The backend a previous live run over the single row BaseRow leaves behind;
\* its files carry the upload prefix 0.
PriorDb ==
  [exam_boards |-> {[id |-> 1, name |-> "EB1", question_bank |-> QUESTION_BANK_EXAM_PAPERS]},
   subjects |-> {[id |-> 1, name |-> "Math", exam_board_id |-> 1]},
   subject_exam_tags |->
     {[id |-> t, subject_id |-> 1, name |-> DEFAULT_TAGS[t], position |-> t] : t \in 1..4},
   subject_exam_tag_values |->
     {[id |-> 1, tag_id |-> 1, value |-> <<"1">>],
      [id |-> 2, tag_id |-> 2, value |-> <<"s">>],
      [id |-> 3, tag_id |-> 3, value |-> Y20]},
   exam_papers |->
     {[id |-> 1, subject_id |-> 1, year |-> 20, season |-> <<"s">>,
       paper_code |-> <<"1">>, paper_label |-> <<"1">>, time_zone |-> NoText,
       question_paper_path |-> <<0, "question.pdf">>,
       mark_scheme_path |-> <<0, "mark-scheme.pdf">>]},
   exam_paper_tag_values |->
     {[exam_paper_id |-> 1, tag_value_id |-> v] : v \in 1..3},
   seq |-> [t \in {"exam_boards", "subjects", "subject_exam_tags",
                   "subject_exam_tag_values", "exam_papers"} |->
              IF t = "subject_exam_tags" THEN 4
              ELSE IF t = "subject_exam_tag_values" THEN 3 ELSE 1]]

PriorStorage == {<<0, "question.pdf">>, <<0, "mark-scheme.pdf">>}

Backends == {[db |-> EmptyDb, storage |-> {}], [db |-> PriorDb, storage |-> PriorStorage]}

MaxCap == 1

Args ==
  [dry_run : BOOLEAN, creds : BOOLEAN, n_paper : {<<>>} \cup {<<n>> : n \in 0..MaxCap}]

\* The history at the start of a run against the backend b
InitHist(b) ==
  [issued |-> {}, rcalls |-> {}, faults |-> 0, rows2 |-> 0, outcome |-> EmptyDict,
   cleanup_failed |-> {}, db0 |-> b.db, storage0 |-> b.storage, plan |-> <<>>,
   count |-> EmptyDict, noid |-> {}]

\* The variables of the other scripts and scenarios while the importer runs
EnsIdle == ens = [db |-> EmptyDb, calls |-> 0, ret |-> EmptyDict]

\* convert_subject before its first line: no limit, nothing read
ConvIdle ==
  /\ cargs = [limit |-> <<>>]
  /\ lines_read = 0
  /\ results = <<>>
  /\ missing_images = {}
  /\ error_report = [errors |-> <<>>, total_processed |-> 0, successful |-> 0, failed |-> 0]
  /\ clog = <<>>

CbIdle ==
  /\ cpc = "idle"
  /\ chapter_map = EmptyDict
  /\ raw_chapter_name = <<>>
  /\ chapter_id = NoId
  /\ ConvIdle

\* upload_items before its first item
UpIdle ==
  /\ upc = "idle"
  /\ items = <<>>
  /\ item_idx = 1
  /\ q_id = NoId
  /\ uploaded_q = <<>>
  /\ uploaded_a = <<>>
  /\ upos = [kind |-> "q", idx |-> 1, attempt |-> 1]
  /\ u_success = 0
  /\ u_failed = 0
  /\ updb = [questions |-> {}, question_images |-> {}, answer_images |-> {}, seq |-> 0]
  /\ buckets = {}
  /\ ulog = <<>>

\* main of convert_backup before its first step
MainIdle ==
  /\ mpc = "idle"
  /\ margs = [limit |-> <<>>, upload |-> FALSE, chapter_map |-> EmptyDict]
  /\ questions_file = <<>>
  /\ subject_configs = <<>>
  /\ cfg_idx = 0
  /\ all_converted = <<>>
  /\ saved_report = <<>>
  /\ subject_db_id = NoId
  /\ subject_db_mappings = EmptyDict

\* The chapter sync before its first run
SyncIdle ==
  /\ spc = "idle"
  /\ options = <<>>
  /\ chapter_hierarchy = [top |-> <<>>, kids |-> <<>>]
  /\ parent_chapters = <<>>
  /\ sub_chapters = <<>>
  /\ existing_by_name = EmptyDict
  /\ existing_by_id = EmptyDict
  /\ local_chapter_map = EmptyDict
  /\ chapters = [rows |-> {}, seq |-> 0]
  /\ sruns = 0
  /\ slog = <<>>

Init ==
  /\ pc = "collect"
  /\ args \in Args
  /\ reader = [lines |-> 0, rec |-> NoRow]
  /\ records = <<>>
  /\ early_errors = <<>>
  /\ required_exams = {}
  /\ required_subjects = [n \in {"EB1", "EB2"} |-> {}]
  /\ required_tag_values = [s \in DOMAIN subjects |-> NoTags]
  /\ rtv_order = <<>>
  /\ exam_name_to_id = EmptyDict
  /\ subject_old_to_new = EmptyDict
  /\ tag_cache = EmptyDict
  /\ tag_value_cache = EmptyDict
  /\ dummy = [subject |-> -1, tag |-> -1, value |-> -1]
  /\ cur = InitCur
  /\ result = [processed |-> 0, imported |-> 0, skipped |-> 0, failed |-> 0,
               pdf_missing |-> 0]
  /\ loc = LocInit(1)
  /\ errors_file = <<>>
  /\ \E b \in Backends : db = b.db /\ storage = b.storage /\ hist = InitHist(b)
  /\ EnsIdle
  /\ CbIdle
  /\ UpIdle
  /\ SyncIdle
  /\ MainIdle

\* The importer at rest, for the scenarios that do not run main
ImpIdle ==
  /\ pc = "idle"
  /\ args = [dry_run |-> FALSE, creds |-> TRUE, n_paper |-> <<>>]
  /\ reader = [lines |-> 0, rec |-> NoRow]
  /\ records = <<>>
  /\ early_errors = <<>>
  /\ required_exams = {}
  /\ required_subjects = [n \in {"EB1", "EB2"} |-> {}]
  /\ required_tag_values = [s \in DOMAIN subjects |-> NoTags]
  /\ rtv_order = <<>>
  /\ exam_name_to_id = EmptyDict
  /\ subject_old_to_new = EmptyDict
  /\ tag_cache = EmptyDict
  /\ tag_value_cache = EmptyDict
  /\ dummy = [subject |-> -1, tag |-> -1, value |-> -1]
  /\ cur = InitCur
  /\ result = [processed |-> 0, imported |-> 0, skipped |-> 0, failed |-> 0,
               pdf_missing |-> 0]
  /\ loc = LocInit(1)
  /\ errors_file = <<>>
  /\ db = EmptyDb
  /\ storage = {}
  /\ hist = InitHist([db |-> EmptyDb, storage |-> {}])

Next ==
  \/ Collect
  \/ MakeClient
  \/ UpsertExamBoard
  \/ UpsertSubject
  \/ EnsureTagStep
  \/ EnsureTagValueStep
  \/ LoopHead
  \/ DupSelect
  \/ UploadQuestion
  \/ UploadMarkScheme
  \/ InsertPaper
  \/ LinkTagValues
  \/ DeletePaper
  \/ RemoveUploaded

Spec == Init /\ [][Next]_vars

-----------------------------------------------------------------------------
(* Properties of the exam-paper importer *)

\* What record i has left in the backend, how it ended, what was called for it
BlobsOf(i) == {p \in storage : p[1] = i}
RowsOf(i) == {r \in db.exam_papers : r.question_paper_path[1] = i}
OutcomeOf(i) == Get(hist.outcome, i, NoneVal)
CallsOf(i) == {c[2] : c \in {x \in hist.rcalls : x[1] = i}}
ErrorsOf(i) == {k \in 1..Len(errors_file) : errors_file[k].record = records[i].raw}
TargetSubject(i) == Get(subject_old_to_new, records[i].subject_old, NoId)

C3_TwoPhase ==
  /\ pc = "collect" =>
       hist.issued = {} /\ db = hist.db0 /\ storage = hist.storage0
  /\ hist.issued # {} =>
       /\ pc # "collect"
       /\ hist.plan = <<records, early_errors, required_exams,
                        required_subjects, required_tag_values>>

\* A live run has planned at least one record and has written to the backend.
C3_Witness == Live /\ Len(records) > 0 /\ "upsert" \in hist.issued

\* C4: in a dry run, with or without credentials, no remote call is issued and
\* the backend stays as it was at the start of the run.
C4_DryRunNoRemoteCall ==
  args.dry_run =>
    hist.issued = {} /\ hist.rcalls = {} /\ db = hist.db0 /\ storage = hist.storage0

\* A dry run with credentials has gone through the upsert phases and has
\* counted a record as imported.
C4_Witness == args.dry_run /\ args.creds /\ pc = "done" /\ result.imported > 0

\* C5: with a cap n, imported never exceeds n and counts the imported records
\* only; no record is in the middle of its iteration once imported has
\* reached n, and the records from the next one on then have no outcome, no
\* remote call and no error entry, and processed counts the records before;
\* the loop ends before the last record only when imported has reached n;
\* when at least n records are there and none failed or was skipped, the run
\* ends with imported = processed = n.
C5_CapEnforced ==
  args.n_paper # <<>> =>
    /\ result.imported <= args.n_paper[1]
    /\ result.imported =
         Cardinality({i \in 1..Len(records) : OutcomeOf(i) = "imported"})
    /\ pc \in {"dup", "upload_q", "upload_ms", "insert", "link", "delete", "remove"}
         => result.imported < args.n_paper[1]
    /\ (pc \in {"loop", "done"} /\ result.imported >= args.n_paper[1]) =>
         /\ result.processed = loc.i - 1
         /\ \A i \in loc.i..Len(records) :
              OutcomeOf(i) = NoneVal /\ CallsOf(i) = {} /\ ErrorsOf(i) = {}
    /\ (pc = "done" /\ loc.i <= Len(records)) => result.imported = args.n_paper[1]
    /\ ( pc = "done" /\ Len(records) >= args.n_paper[1]
         /\ result.failed = 0 /\ result.skipped = 0 ) =>
         result.imported = args.n_paper[1] /\ result.processed = args.n_paper[1]

\* A live run with a positive cap has ended with imported equal to the cap,
\* nothing failed, and a record left untouched.
C5_Witness ==
  /\ pc = "done" /\ Live /\ args.n_paper # <<>>
  /\ args.n_paper[1] > 0 /\ result.imported = args.n_paper[1]
  /\ result.failed = 0 /\ Len(records) > result.processed

\* A required field of the row is empty, or its year is absent or no integer.
RowLacksField(rec) ==
  \/ rec.subject = NoneVal \/ rec.exam = NoneVal \/ rec.paper = NoText
  \/ rec.season = NoText \/ rec.question_url = NoText
  \/ rec.year = NoText \/ parse_year(rec.year) = <<>>

\* The names of the tags whose values are linked to the exam_papers row r
LinkedTagNames(r) ==
  {t.name : t \in {t \in db.subject_exam_tags :
     \E v \in db.subject_exam_tag_values :
       /\ v.tag_id = t.id
       /\ \E l \in db.exam_paper_tag_values :
            l.exam_paper_id = r.id /\ l.tag_value_id = v.id}}

\* The records planned for the legacy subject subj
RecordsOf(subj) == {i \in 1..Len(records) : records[i].subject_old = subj}

\* C6: every questionBank==2 row read has yielded exactly one of a Record and
\* an error entry; the row at hand, when it lacks a required field or its
\* year is no integer, has yielded a 'missing fields' error and no Record,
\* and when it lacks the timezone only, a Record with timezone None and no
\* error; the requirement sets hold what the Records contribute and nothing
\* else; a Record without timezone that a live run imported has a row with
\* time_zone None that is linked to no value of the tag "time zone".
C6_RowYieldsRecordOrError ==
  /\ hist.rows2 = Len(records) + Len(early_errors)
  /\ \A k \in 1..reader.lines :
       Cardinality({i \in 1..Len(records) : records[i].raw = k})
         + Cardinality({j \in 1..Len(early_errors) : early_errors[j].record = k}) <= 1
  /\ (pc = "collect" /\ reader.lines > 0 /\ reader.rec.questionBank = 2) =>
       LET rec == reader.rec
           k == reader.lines
       IN /\ RowLacksField(rec) =>
               /\ early_errors # <<>>
               /\ early_errors[Len(early_errors)] =
                    [reason |-> "missing fields/question url", record |-> k]
               /\ \A i \in 1..Len(records) : records[i].raw # k
          /\ ( ~RowLacksField(rec) /\ rec.subject \in DOMAIN subjects
                /\ rec.exam \in DOMAIN exams /\ rec.timezone = NoText ) =>
               /\ records # <<>>
               /\ records[Len(records)].raw = k
               /\ records[Len(records)].timezone = NoText
               /\ \A j \in 1..Len(early_errors) : early_errors[j].record # k
  /\ required_exams = {exams[records[i].exam_old].name : i \in 1..Len(records)}
  /\ \A subj \in DOMAIN required_tag_values :
       /\ required_tag_values[subj]["paper"] = {records[i].paper : i \in RecordsOf(subj)}
       /\ required_tag_values[subj]["season"] = {records[i].season : i \in RecordsOf(subj)}
       /\ required_tag_values[subj]["time zone"] =
            {records[i].timezone : i \in RecordsOf(subj)} \ {NoText}
       /\ \A y \in required_tag_values[subj]["year"] :
            \E i \in RecordsOf(subj) : parse_year(y) = <<records[i].year>>
       /\ \A i \in RecordsOf(subj) :
            \E y \in required_tag_values[subj]["year"] : parse_year(y) = <<records[i].year>>
  /\ \A i \in 1..Len(records) :
       (Live /\ records[i].timezone = NoText /\ OutcomeOf(i) = "imported") =>
         /\ RowsOf(i) # {}
         /\ \A r \in RowsOf(i) :
              r.time_zone = NoText /\ "time zone" \notin LinkedTagNames(r)

\* A live run has rejected a row for a missing field and has imported a
\* record without timezone.
C6_Witness ==
  /\ Live /\ pc = "done"
  /\ \E k \in 1..Len(early_errors) :
       early_errors[k].reason = "missing fields/question url"
  /\ \E i \in 1..Len(records) :
       records[i].timezone = NoText /\ OutcomeOf(i) = "imported"

\* Records i and j have the same (target subject id, year, season, paper code)
SameKey(i, j) ==
  /\ TargetSubject(i) = TargetSubject(j)
  /\ records[i].year = records[j].year
  /\ records[i].season = records[j].season
  /\ records[i].paper = records[j].paper

\* The table rows holds a row with the key of record j
KeyIn(rows, j) ==
  \E r \in rows : /\ r.subject_id = TargetSubject(j)
                  /\ r.year = records[j].year
                  /\ r.season = records[j].season
                  /\ r.paper_code = records[j].paper

-----------------------------------------------------------------------------
(* The ensure_* helpers called in live mode, any of them, any number of times *)

MaxCalls == 3

\* The natural key of a call: the table and the values of its conflict columns
EnsureKey(t, name, ref, value) == [table |-> t, name |-> name, ref |-> ref, value |-> value]

\* The history after a call with natural key k has answered r
Returned(e, k, r) ==
  [db |-> r.db,
   calls |-> e.calls + 1,
   ret |-> Put(e.ret, k,
               [ids |-> Get(e.ret, k, [ids |-> {}, n |-> 0]).ids \cup {r.id},
                n |-> Get(e.ret, k, [ids |-> {}, n |-> 0]).n + 1])]

CallEnsureExamBoard ==
  /\ ens.calls < MaxCalls
  /\ \E name \in {"EB1", "EB2"} :
       ens' = Returned(ens, EnsureKey("exam_boards", name, NoId, NoText),
                       ensure_exam_board(ens.db, name, FALSE, "ok"))
  /\ UNCHANGED <<impVars, cbVars, upVars, syncVars, mainVars>>

\* exam_board_id is None (NoId) or an id
CallEnsureSubject ==
  /\ ens.calls < MaxCalls
  /\ \E name \in {"Math", "Phys"}, exam_board_id \in {NoId, 1, 2} :
       ens' = Returned(ens, EnsureKey("subjects", name, exam_board_id, NoText),
                       ensure_subject(ens.db, name, exam_board_id, FALSE, "ok"))
  /\ UNCHANGED <<impVars, cbVars, upVars, syncVars, mainVars>>

CallEnsureTag ==
  /\ ens.calls < MaxCalls
  /\ \E subject_id \in {1, 2}, name \in {"paper", "year"}, position \in {1, 2} :
       ens' = Returned(ens, EnsureKey("subject_exam_tags", name, subject_id, NoText),
                       ensure_tag(ens.db, subject_id, name, position, FALSE, "ok"))
  /\ UNCHANGED <<impVars, cbVars, upVars, syncVars, mainVars>>

CallEnsureTagValue ==
  /\ ens.calls < MaxCalls
  /\ \E tag_id \in {1, 2}, value \in {<<"1">>, Y20} :
       ens' = Returned(ens, EnsureKey("subject_exam_tag_values", NoneVal, tag_id, value),
                       ensure_tag_value(ens.db, tag_id, value, FALSE, "ok"))
  /\ UNCHANGED <<impVars, cbVars, upVars, syncVars, mainVars>>

InitEnsure ==
  /\ ImpIdle
  /\ UpIdle
  /\ SyncIdle
  /\ MainIdle
  /\ CbIdle
  /\ \E b \in Backends : ens = [db |-> b.db, calls |-> 0, ret |-> EmptyDict]

NextEnsure ==
  \/ CallEnsureExamBoard
  \/ CallEnsureSubject
  \/ CallEnsureTag
  \/ CallEnsureTagValue

SpecEnsure == InitEnsure /\ [][NextEnsure]_vars

\* The rows of the backend that carry the natural key k
RowsWithKey(d, k) ==
  IF k.table = "exam_boards" THEN {r \in d.exam_boards : r.name = k.name}
  ELSE IF k.table = "subjects"
  THEN {r \in d.subjects : r.name = k.name /\ r.exam_board_id = k.ref}
  ELSE IF k.table = "subject_exam_tags"
  THEN {r \in d.subject_exam_tags : r.name = k.name /\ r.subject_id = k.ref}
  ELSE {r \in d.subject_exam_tag_values : r.tag_id = k.ref /\ r.value = k.value}

-----------------------------------------------------------------------------
(* convert_backup.py: chapter names *)

\* Optional values: None is <<>>, a value v is <<v>>
None == <<>>
Some(v) == <<v>>

\* The position of the first "@" of s, 0 when there is none
FirstAt(s) ==
  IF \E j \in 1..Len(s) : s[j] = "@"
  THEN CHOOSE j \in 1..Len(s) : s[j] = "@" /\ \A x \in 1..(j - 1) : s[x] # "@"
  ELSE 0

\* Variant of parse_chapter_name that splits at the last "@"
parse_chapter_name_Last(raw_chapter) ==
  IF \E j \in 1..Len(raw_chapter) : raw_chapter[j] = "@"
  THEN LET a == CHOOSE j \in 1..Len(raw_chapter) :
                  raw_chapter[j] = "@" /\ \A x \in (j + 1)..Len(raw_chapter) : raw_chapter[x] # "@"
       IN [parent |-> Strip(SubSeq(raw_chapter, 1, a - 1)),
           sub |-> Some(Strip(SubSeq(raw_chapter, a + 1, Len(raw_chapter))))]
  ELSE [parent |-> raw_chapter, sub |-> None]

\* parse_chapter_name: (parent_chapter, sub_chapter)
parse_chapter_name(raw_chapter) ==
  LET a == FirstAt(raw_chapter)
  IN IF a > 0
     THEN [parent |-> Strip(SubSeq(raw_chapter, 1, a - 1)),
           sub |-> Some(Strip(SubSeq(raw_chapter, a + 1, Len(raw_chapter))))]
     ELSE [parent |-> raw_chapter, sub |-> None]

\* "if sub": the sub-chapter is neither None nor the empty string
Truthy(sub) == sub # None /\ sub[1] # <<>>

\* get_chapter_key
get_chapter_key(parent, sub) ==
  IF Truthy(sub) THEN parent \o <<"@">> \o sub[1] ELSE parent

\* Variant of ResolveChapterId that falls back to the parent name whether or
\* not a sub-chapter is there
ResolveChapterId_ParentFallback(raw, cmap) ==
  IF raw = None THEN NoId
  ELSE LET p == parse_chapter_name(raw[1])
           full_key == get_chapter_key(p.parent, p.sub)
       IN IF full_key \in DOMAIN cmap THEN cmap[full_key]
          ELSE IF Truthy(p.sub) /\ p.sub[1] \in DOMAIN cmap THEN cmap[p.sub[1]]
          ELSE IF p.parent \in DOMAIN cmap THEN cmap[p.parent]
          ELSE NoId

\* build_output_item: the chapter id of the raw chapter name raw (None or a
\* string) under the chapter map cmap; None is NoId
ResolveChapterId(raw, cmap) ==
  IF raw = None THEN NoId
  ELSE LET p == parse_chapter_name(raw[1])
           full_key == get_chapter_key(p.parent, p.sub)
       IN IF full_key \in DOMAIN cmap THEN cmap[full_key]
          ELSE IF Truthy(p.sub) /\ p.sub[1] \in DOMAIN cmap THEN cmap[p.sub[1]]
          ELSE IF p.parent \in DOMAIN cmap /\ ~Truthy(p.sub) THEN cmap[p.parent]
          ELSE NoId

-----------------------------------------------------------------------------
(* Chapter resolution as a function of the raw chapter and the chapter map *)

MaxLen == 3

Chars == {"A", "B", "@", " "}

\* The strings over Chars of length at most n
RECURSIVE Strings(_)
Strings(n) ==
  IF n = 0 THEN {<<>>}
  ELSE Strings(n - 1) \cup {Append(t, c) : t \in {x \in Strings(n - 1) : Len(x) = n - 1}, c \in Chars}

RawChapters == {None} \cup {Some(t) : t \in Strings(MaxLen)}

\* The chapter keys and their ids: two top-level chapters and two sub-chapters
\* of the first, one of them named like its parent
ChapterIds ==
  [k \in {<<"A">>, <<"B">>, <<"A", "@", "B">>, <<"A", "@", "A">>} |->
     IF k = <<"A">> THEN 1
     ELSE IF k = <<"B">> THEN 7
     ELSE IF k = <<"A", "@", "B">> THEN 2 ELSE 3]

\* The chapter maps: the restrictions of ChapterIds
ChapterMaps == {[k \in K |-> ChapterIds[k]] : K \in SUBSET DOMAIN ChapterIds}

InitChapter ==
  /\ ImpIdle
  /\ UpIdle
  /\ SyncIdle
  /\ MainIdle
  /\ EnsIdle
  /\ ConvIdle
  /\ cpc = "resolve"
  /\ chapter_map \in ChapterMaps
  /\ raw_chapter_name \in RawChapters
  /\ chapter_id = NoId

\* Lines 699-714 of build_output_item
ResolveChapter ==
  /\ cpc = "resolve"
  /\ chapter_id' = ResolveChapterId(raw_chapter_name, chapter_map)
  /\ cpc' = "resolved"
  /\ UNCHANGED <<chapter_map, raw_chapter_name, cargs, lines_read, results,
                 missing_images, error_report, clog>>
  /\ UNCHANGED <<impVars, ensVars, upVars, syncVars, mainVars>>

NextChapter == ResolveChapter

SpecChapter == InitChapter /\ [][NextChapter]_vars

\* The parts of the raw chapter at hand
ParentOf(raw) == parse_chapter_name(raw[1]).parent
SubOf(raw) == parse_chapter_name(raw[1]).sub
HasSub(raw) == SubOf(raw) # None /\ SubOf(raw)[1] # <<>>
FullKey(raw) == ParentOf(raw) \o <<"@">> \o SubOf(raw)[1]

\* The id the ordered rules of C8 give
RuleId(raw, cmap) ==
  IF raw = None THEN NoId
  ELSE IF HasSub(raw)
  THEN IF FullKey(raw) \in DOMAIN cmap THEN cmap[FullKey(raw)]
       ELSE IF SubOf(raw)[1] \in DOMAIN cmap THEN cmap[SubOf(raw)[1]]
       ELSE NoId
  ELSE IF ParentOf(raw) \in DOMAIN cmap THEN cmap[ParentOf(raw)] ELSE NoId

\* C8 as stated, last sentence: a chapter with a sub-chapter never resolves
\* to the id the map gives its parent.
C8_NeverParentId ==
  (cpc = "resolved" /\ raw_chapter_name # None /\ HasSub(raw_chapter_name)
     /\ ParentOf(raw_chapter_name) \in DOMAIN chapter_map)
    => chapter_id # chapter_map[ParentOf(raw_chapter_name)]

\* C8, amended: the resolved id is map[parent@sub] if that key is in the map,
\* else map[sub] if a sub-chapter is there and in the map, else map[parent]
\* only if no sub-chapter is there, else None; "A@B" against {B: 7} gives 7
\* and "A" against that map gives None; a chapter with a sub-chapter gets the
\* id of its parent only by the sub-name rule, when the sub-chapter is named
\* like its parent and parent@sub is no key of the map.
C8_ChapterResolution ==
  cpc = "resolved" =>
    /\ chapter_id = RuleId(raw_chapter_name, chapter_map)
    /\ (raw_chapter_name = Some(<<"A", "@", "B">>) /\ DOMAIN chapter_map = {<<"B">>})
         => chapter_id = 7
    /\ (raw_chapter_name = Some(<<"A">>) /\ DOMAIN chapter_map = {<<"B">>})
         => chapter_id = NoId
    /\ ( /\ raw_chapter_name # None
         /\ HasSub(raw_chapter_name)
         /\ ParentOf(raw_chapter_name) \in DOMAIN chapter_map
         /\ chapter_id = chapter_map[ParentOf(raw_chapter_name)] )
         => /\ SubOf(raw_chapter_name)[1] = ParentOf(raw_chapter_name)
            /\ FullKey(raw_chapter_name) \notin DOMAIN chapter_map

\* "A@B" was resolved by the sub-name rule against the map {B: 7}.
C8_Witness ==
  /\ cpc = "resolved"
  /\ raw_chapter_name = Some(<<"A", "@", "B">>)
  /\ DOMAIN chapter_map = {<<"B">>}
  /\ chapter_id = 7

-----------------------------------------------------------------------------
(* convert_backup.py: images and items *)

\* A URL is the sequence of the segments of its path, <<>> for an empty URL;
\* a path under image_root is a sequence of segments as well.
FileName(url) == IF url = <<>> THEN "" ELSE url[Len(url)]

\* The files under image_root
ImageRoot == {<<"d", "a.png">>, <<"b.png">>}

\* find_image_path: the path found (prefers the URL sub-path), or None
find_image_path(relative_path, filename, root) ==
  IF relative_path # None /\ relative_path[1] \in root THEN Some(relative_path[1])
  ELSE IF <<filename>> \in root THEN Some(<<filename>>)
  ELSE None

\* The loop of extract_images: paths collected so far, blocks still to visit
RECURSIVE ExtractLoop(_, _, _, _)
ExtractLoop(blocks, kind, image_root, paths) ==
  IF blocks = <<>> THEN [paths |-> Some(paths), missing_local |-> <<>>]
  ELSE LET block == Head(blocks)
           filename == FileName(block.url)
           relative_path == IF filename # "" THEN Some(block.url) ELSE None
           found == find_image_path(relative_path, filename, image_root)
       IN IF block.type # kind \/ filename = ""
          THEN ExtractLoop(Tail(blocks), kind, image_root, paths)
          ELSE IF found # None
          THEN ExtractLoop(Tail(blocks), kind, image_root, Append(paths, found[1]))
          ELSE [paths |-> None, missing_local |-> <<relative_path[1]>>]

\* Variant of the loop that leaves out a missing file and goes on
RECURSIVE ExtractLoop_Skip(_, _, _, _)
ExtractLoop_Skip(blocks, kind, image_root, paths) ==
  IF blocks = <<>> THEN [paths |-> Some(paths), missing_local |-> <<>>]
  ELSE LET block == Head(blocks)
           filename == FileName(block.url)
           relative_path == IF filename # "" THEN Some(block.url) ELSE None
           found == find_image_path(relative_path, filename, image_root)
       IN IF block.type # kind \/ filename = "" \/ found = None
          THEN ExtractLoop_Skip(Tail(blocks), kind, image_root, paths)
          ELSE ExtractLoop_Skip(Tail(blocks), kind, image_root, Append(paths, found[1]))

\* Variant of extract_images that keeps the images it finds
extract_images_SkipMissing(blocks, kind, image_root) ==
  ExtractLoop_Skip(blocks, kind, image_root, <<>>)

\* extract_images: [paths: the list or None, missing_local]; the caller's
\* set "missing" receives the elements of missing_local
extract_images(blocks, kind, image_root) ==
  ExtractLoop(blocks, kind, image_root, <<>>)

\* ErrorReport.add_error, add_success, increment_processed
add_error(report, error) ==
  [report EXCEPT !.errors = Append(@, error), !.failed = @ + 1]

add_success(report) == [report EXCEPT !.successful = @ + 1]

increment_processed(report) == [report EXCEPT !.total_processed = @ + 1]

MISSING_IMAGE == "missing_image"
CHAPTER_MAPPING_FAILED == "chapter_mapping_failed"

\* build_output_item with an error report:
\* [item: the item or None, missing_local, missing_images, error_report]
build_output_item(obj, image_root, cmap, missing, report) ==
  LET raw == obj.chapter
      cid == ResolveChapterId(raw, cmap)
      q == extract_images(obj.blocks, "image", image_root)
      a == extract_images(obj.blocks, "imageAnswer", image_root)
      missing_local == q.missing_local \o a.missing_local
      missing1 == missing \cup Range(missing_local)
  IN IF q.paths = None \/ a.paths = None
     THEN [item |-> None,
           missing_local |-> missing_local,
           missing_images |-> missing1,
           error_report |-> add_error(report,
                              [source_id |-> obj.id, error_type |-> MISSING_IMAGE])]
     ELSE LET failed == cmap # EmptyDict /\ raw # None /\ cid = NoId
              marker == <<"chapter:">> \o raw[1]
              missing_local2 == IF failed THEN Append(missing_local, marker)
                                ELSE missing_local
              item == [chapterId |-> cid, chapterName |-> raw,
                       questionImages |-> q.paths[1], answerImages |-> a.paths[1],
                       sourceId |-> obj.id]
          IN [item |-> IF missing_local2 = <<>> THEN Some(item) ELSE None,
              missing_local |-> missing_local2,
              missing_images |-> IF failed THEN missing1 \cup {marker} ELSE missing1,
              error_report |->
                IF failed
                THEN add_error(report,
                       [source_id |-> obj.id, error_type |-> CHAPTER_MAPPING_FAILED])
                ELSE report]

-----------------------------------------------------------------------------
(* convert_subject over the questions file *)

MaxQuestions == 2
MaxLimit == 1

Block(type, url) == [type |-> type, url |-> url]

UrlA == <<"d", "a.png">>    \* on disk at the sub-path of the URL
UrlB == <<"x", "b.png">>    \* on disk by its file name only
UrlM == <<"d", "m.png">>    \* not on disk
UrlE == <<>>                \* no file name

BlockLists ==
  { <<>>,
    <<Block("image", UrlA)>>,
    <<Block("image", UrlA), Block("imageAnswer", UrlB)>>,
    <<Block("image", UrlA), Block("image", UrlM)>>,
    <<Block("image", UrlA), Block("imageAnswer", UrlM)>>,
    <<Block("image", UrlM), Block("imageAnswer", UrlM)>>,
    <<Block("text", UrlM), Block("image", UrlE), Block("image", UrlB)>> }

Chapters == {None, Some(<<"A">>), Some(<<"A", "@", "B">>), Some(<<"X">>)}

\* The lines of the questions file: records of the chosen subject and a
\* record of another subject
Objs ==
  {[subject |-> "s1", chapter |-> c, blocks |-> b] : c \in Chapters, b \in BlockLists}
  \cup {[subject |-> "s2", chapter |-> None, blocks |-> <<>>]}

ConvMaps ==
  {m \in ChapterMaps : DOMAIN m \in {{}, {<<"B">>}, {<<"A">>, <<"A", "@", "B">>}}}

\* max_items of convert_subject
max_items(limit) == IF limit # None /\ limit[1] > 0 THEN limit ELSE None

InitConvert ==
  /\ ImpIdle
  /\ UpIdle
  /\ SyncIdle
  /\ MainIdle
  /\ EnsIdle
  /\ cpc = "convert"
  /\ chapter_map \in ConvMaps
  /\ raw_chapter_name = None
  /\ chapter_id = NoId
  /\ cargs \in [limit : {None} \cup {Some(n) : n \in 0..MaxLimit}]
  /\ lines_read = 0
  /\ results = <<>>
  /\ missing_images = {}
  /\ error_report = [errors |-> <<>>, total_processed |-> 0, successful |-> 0, failed |-> 0]
  /\ clog = <<>>

\* The test at the head of the loop of process_questions
LimitReached == max_items(cargs.limit) # None /\ Len(results) >= max_items(cargs.limit)[1]

\* One iteration of the loop of process_questions over a line of the file
ConvertLine ==
  /\ cpc = "convert"
  /\ lines_read < MaxQuestions
  /\ ~LimitReached
  /\ \E o \in Objs :
       LET obj == [id |-> lines_read + 1, subject |-> o.subject,
                   chapter |-> o.chapter, blocks |-> o.blocks]
           r == build_output_item(obj, ImageRoot, chapter_map, missing_images,
                                  error_report)
           rep == increment_processed(r.error_report)
       IN /\ lines_read' = lines_read + 1
          /\ IF obj.subject # "s1"
             THEN UNCHANGED <<results, missing_images, error_report, clog>>
             ELSE /\ missing_images' = r.missing_images
                  /\ IF r.missing_local # <<>>
                     THEN /\ results' = results
                          /\ error_report' = rep
                     ELSE IF r.item # None
                     THEN /\ results' = Append(results, r.item[1])
                          /\ error_report' = add_success(rep)
                     ELSE /\ results' = results
                          /\ error_report' = rep
                  /\ clog' = Append(clog,
                       [obj |-> obj,
                        item |-> r.item,
                        appended |-> r.missing_local = <<>> /\ r.item # None,
                        errors |-> SubSeq(r.error_report.errors,
                                          Len(error_report.errors) + 1,
                                          Len(r.error_report.errors))])
  /\ UNCHANGED <<cpc, chapter_map, raw_chapter_name, chapter_id, cargs>>
  /\ UNCHANGED <<impVars, ensVars, upVars, syncVars, mainVars>>

\* The loop ends: the file is read or the limit is reached
ConvertReturn ==
  /\ cpc = "convert"
  /\ cpc' = "converted"
  /\ UNCHANGED <<chapter_map, raw_chapter_name, chapter_id, cargs, lines_read,
                 results, missing_images, error_report, clog>>
  /\ UNCHANGED <<impVars, ensVars, upVars, syncVars, mainVars>>

NextConvert ==
  \/ ConvertLine
  \/ ConvertReturn

SpecConvert == InitConvert /\ [][NextConvert]_vars

-----------------------------------------------------------------------------
(* Properties of convert_subject *)

\* The positions of the blocks of the given kind that refer to a file
ImageBlocks(obj, kind) ==
  {j \in 1..Len(obj.blocks) : obj.blocks[j].type = kind /\ obj.blocks[j].url # <<>>}

\* The file of the URL is under image_root, at the sub-path or by its name
OnDisk(url) == url \in ImageRoot \/ <<FileName(url)>> \in ImageRoot

AllImagesPresent(obj) ==
  \A j \in ImageBlocks(obj, "image") \cup ImageBlocks(obj, "imageAnswer") :
    OnDisk(obj.blocks[j].url)

\* The items of results that come from the record with the given _id
ItemsOf(id) == {k \in 1..Len(results) : results[k].sourceId = id}

\* C9 as stated: with a non-empty chapter map, a record whose images are all
\* on disk and whose raw chapter resolves to no id is converted: an item with
\* chapterId None is appended to results and one chapter_mapping_failed error
\* is recorded.
C9_ChapterFailureNonFatal ==
  \A j \in 1..Len(clog) :
    ( /\ chapter_map # EmptyDict
      /\ AllImagesPresent(clog[j].obj)
      /\ clog[j].obj.chapter # None
      /\ RuleId(clog[j].obj.chapter, chapter_map) = NoId )
    => /\ clog[j].appended
       /\ \E k \in ItemsOf(clog[j].obj.id) : results[k].chapterId = NoId
       /\ Len(clog[j].errors) = 1
       /\ clog[j].errors[1].error_type = CHAPTER_MAPPING_FAILED

\* C10: a record with an image or imageAnswer block whose file is not on disk
\* yields no item and exactly one missing_image error; every path listed in
\* an item of results is on disk, and the item lists one path for every image
\* block and one for every imageAnswer block of its record.
C10_ImageCompleteness ==
  /\ \A j \in 1..Len(clog) :
       ~AllImagesPresent(clog[j].obj) =>
         /\ ~clog[j].appended
         /\ clog[j].item = None
         /\ ItemsOf(clog[j].obj.id) = {}
         /\ Len(clog[j].errors) = 1
         /\ clog[j].errors[1].error_type = MISSING_IMAGE
         /\ clog[j].errors[1].source_id = clog[j].obj.id
  /\ \A k \in 1..Len(results) :
       /\ Range(results[k].questionImages) \cup Range(results[k].answerImages)
            \subseteq ImageRoot
       /\ \E j \in 1..Len(clog) :
            /\ clog[j].obj.id = results[k].sourceId
            /\ Len(results[k].questionImages)
                 = Cardinality(ImageBlocks(clog[j].obj, "image"))
            /\ Len(results[k].answerImages)
                 = Cardinality(ImageBlocks(clog[j].obj, "imageAnswer"))

\* A record with one image on disk and another one missing was rejected, and
\* a record with all its images on disk produced an item.
C10_Witness ==
  /\ \E j \in 1..Len(clog) :
       /\ ~AllImagesPresent(clog[j].obj)
       /\ \E b \in ImageBlocks(clog[j].obj, "image") : OnDisk(clog[j].obj.blocks[b].url)
       /\ ~clog[j].appended
  /\ \E k \in 1..Len(results) :
       results[k].questionImages # <<>> /\ results[k].answerImages # <<>>

-----------------------------------------------------------------------------
(* The exam-paper importer under fair scheduling: main is a sequential
   program, so a step that is enabled is eventually taken.  The runs are
   those without a cap, for which the claim fixes the final count. *)

\* The runs without a cap that have credentials, live or dry
InitNoCap == Init /\ args.n_paper = <<>> /\ args.creds

SpecFair == InitNoCap /\ [][Next]_vars /\ WF_vars(Next)

\* C11: once main has entered the record loop, whatever the remote calls made
\* for the records do (return, answer with an error, raise), the loop goes on
\* from each record to the next and the run reaches the final summary; a run
\* without a cap has then processed every Record.
C11_ErrorIsolation ==
  (pc = "loop") ~>
    (/\ pc = "done"
     /\ args.n_paper = <<>> => /\ result.processed = Len(records)
                               /\ \A i \in 1..Len(records) : OutcomeOf(i) # NoneVal)

\* A run without a cap over two Records has reached the summary although a
\* remote call made for the first Record raised.
C11_Witness ==
  /\ pc = "done"
  /\ args.n_paper = <<>>
  /\ Len(records) = 2
  /\ result.processed = 2
  /\ OutcomeOf(1) = "failed"
  /\ hist.faults > 0
  /\ "upload" \in CallsOf(1)

-----------------------------------------------------------------------------
(* The upsert failure policy of the exam-paper importer *)

\* The reasons of the error lines written for Record i
ReasonsOf(i) == {errors_file[k].reason : k \in ErrorsOf(i)}

\* The Records read from the same row as Record i that ended failed
FailedLike(i) ==
  {j \in 1..Len(records) : records[j].raw = records[i].raw /\ OutcomeOf(j) = "failed"}

\* Record i ended failed with one error line of this reason and without any
\* remote call
FailedWith(i, reason) ==
  /\ OutcomeOf(i) = "failed"
  /\ ReasonsOf(i) = {reason}
  /\ Cardinality(ErrorsOf(i)) = Cardinality(FailedLike(i))
  /\ CallsOf(i) = {}
  /\ BlobsOf(i) = {}
  /\ RowsOf(i) = {}

\* The ensure_* call for this entity answered without an id
NoIdFor(kind, subj, name, val) == EnsureKeyOf(kind, subj, name, val) \in hist.noid

\* ensure_tag_value answered without an id for some value of the tag
SomeValueNoId(subj, name) ==
  \E k \in hist.noid : k.kind = "value" /\ k.subj = subj /\ k.name = name

\* The three facets every Record needs, and the value Record i looks up
Facets == {"paper", "season", "year"}

LookedUp(i, facet) ==
  IF facet = "paper" THEN records[i].paper
  ELSE IF facet = "season" THEN records[i].season
  ELSE IntToStr(records[i].year)

\* A legacy subject that comes later in required_tag_values and has the same
\* target subject id: its pass refills the caches of that target subject.
LaterSameTarget(subj) ==
  \E a, b \in 1..Len(rtv_order) :
    /\ a < b
    /\ rtv_order[a] = subj
    /\ Get(subject_old_to_new, rtv_order[b], NoId)
         = Get(subject_old_to_new, subj, NoId)

\* C13 as stated: a subject upsert without an id, or a tag or tag-value upsert
\* without an id for a required facet of a subject, fails every processed
\* Record of that subject before any upload or insert.
C13_UpsertFailureFailsSubject ==
  \A i \in 1..Len(records) :
    OutcomeOf(i) # NoneVal =>
      LET s == records[i].subject_old
      IN /\ NoIdFor("subject", s, subjects[s].name, NoText)
              => FailedWith(i, "subject unresolved")
         /\ (\E f \in Facets : NoIdFor("tag", s, f, NoText) \/ SomeValueNoId(s, f))
              => FailedWith(i, "tag value missing")

\* C13 (amended): a subject upsert without an id fails every processed Record
\* of the subject with "subject unresolved"; a tag upsert without an id for a
\* required facet, or a tag-value upsert without an id for the value the
\* Record looks up, fails the Record with "tag value missing" unless a later
\* legacy subject with the same target subject refilled the caches.  The
\* failed Record has one error line, no remote call, no blob and no row, and
\* the loop goes on to the next Record.
C13_UpsertFailurePolicy ==
  \A i \in 1..Len(records) :
    OutcomeOf(i) # NoneVal =>
      LET s == records[i].subject_old
      IN /\ NoIdFor("subject", s, subjects[s].name, NoText)
              => FailedWith(i, "subject unresolved")
         /\ (/\ ~LaterSameTarget(s)
             /\ \E f \in Facets : \/ NoIdFor("tag", s, f, NoText)
                                  \/ NoIdFor("value", s, f, LookedUp(i, f)))
              => FailedWith(i, "tag value missing")
         /\ pc \notin {"crashed", "aborted"}

\* A tag-value upsert answered without an id, the Record that needs the value
\* ended failed with "tag value missing", and the run went on to import the
\* next Record.
C13_Witness ==
  /\ pc = "done"
  /\ \E i, j \in 1..Len(records) :
       /\ i < j
       /\ NoIdFor("value", records[i].subject_old, "paper", records[i].paper)
       /\ FailedWith(i, "tag value missing")
       /\ OutcomeOf(j) = "imported"

\* C14: when the exam-board upsert answered without an id, no subject of that
\* board is upserted without an exam_board_id, and no Record of such a subject
\* is imported: each one processed ends unimported with an error line.
C14_ExamBoardFailureSkipsRecords ==
  \A s \in DOMAIN subjects :
    NoIdFor("exam_board", NoneVal, exams[subjects[s].exam_id].name, NoText) =>
      /\ \A r \in db.subjects \ hist.db0.subjects :
           ~(r.name = subjects[s].name /\ r.exam_board_id = NoId)
      /\ \A i \in 1..Len(records) :
           (records[i].subject_old = s /\ OutcomeOf(i) # NoneVal) =>
             /\ OutcomeOf(i) # "imported"
             /\ ErrorsOf(i) # {}

-----------------------------------------------------------------------------
(* The placeholder ids of a dry run *)

\* Position of a legacy subject in required_tag_values, of a tag in DEFAULT_TAGS
RtvIndex(subj) == CHOOSE k \in 1..Len(rtv_order) : rtv_order[k] = subj

TagIndex(name) == CHOOSE t \in 1..Len(DEFAULT_TAGS) : DEFAULT_TAGS[t] = name

SubjectIndex(subj) == CHOOSE j \in 1..Len(SubjectOrder) : SubjectOrder[j] = subj

\* The (subject, tag) pairs with a cached tag id and the (subject, tag, value)
\* triples with a cached value id, the subject being the legacy one
CachedTags ==
  {<<s, t>> \in (DOMAIN subject_old_to_new) \X {"paper", "season", "year", "time zone"} :
     /\ subject_old_to_new[s] \in DOMAIN tag_cache
     /\ t \in DOMAIN tag_cache[subject_old_to_new[s]]}

TagIdOf(p) == tag_cache[subject_old_to_new[p[1]]][p[2]]

CachedValues ==
  UNION { {<<p[1], p[2], v>> :
             v \in DOMAIN Get(tag_value_cache[subject_old_to_new[p[1]]], p[2], EmptyDict)}
          : p \in CachedTags }

ValueIdOf(q) == tag_value_cache[subject_old_to_new[q[1]]][q[2]][q[3]]

\* The order in which the tag loop reaches the pairs
TagBefore(p, q) ==
  \/ RtvIndex(p[1]) < RtvIndex(q[1])
  \/ RtvIndex(p[1]) = RtvIndex(q[1]) /\ TagIndex(p[2]) < TagIndex(q[2])

\* The ids of the rows of the backend
RealIds ==
  UNION {{r.id : r \in db[t]} :
           t \in {"exam_boards", "subjects", "subject_exam_tags",
                  "subject_exam_tag_values", "exam_papers"}}

\* C17: in a dry run every id in the subject, tag and tag-value caches is
\* negative and above the next placeholder of its kind; the ids of each kind
\* decrease strictly in assignment order, so distinct subjects, distinct
\* (subject, tag) pairs and distinct (subject, tag, value) triples have
\* distinct ids; the ids of the backend's rows are not negative.
C17_PlaceholderIds ==
  args.dry_run =>
    /\ \A s \in DOMAIN subject_old_to_new :
         dummy.subject < subject_old_to_new[s] /\ subject_old_to_new[s] < 0
    /\ \A a, b \in DOMAIN subject_old_to_new :
         SubjectIndex(a) < SubjectIndex(b)
           => subject_old_to_new[a] > subject_old_to_new[b]
    /\ \A p \in CachedTags : dummy.tag < TagIdOf(p) /\ TagIdOf(p) < 0
    /\ \A p, q \in CachedTags : TagBefore(p, q) => TagIdOf(p) > TagIdOf(q)
    /\ \A q \in CachedValues : dummy.value < ValueIdOf(q) /\ ValueIdOf(q) < 0
    /\ \A q, r \in CachedValues :
         /\ q # r => ValueIdOf(q) # ValueIdOf(r)
         /\ TagBefore(<<q[1], q[2]>>, <<r[1], r[2]>>) => ValueIdOf(q) > ValueIdOf(r)
    /\ \A id \in RealIds : id >= 0

\* A dry run has given placeholders to two subjects, their tags and values.
C17_Witness ==
  /\ args.dry_run
  /\ pc = "done"
  /\ Cardinality(DOMAIN subject_old_to_new) = 2
  /\ Cardinality(CachedTags) = 8
  /\ Cardinality(CachedValues) >= 6
  /\ result.imported > 0

-----------------------------------------------------------------------------
(* upload_items of convert_backup.py, called with an error report.  An item
   is [chapterId, questionImages, answerImages]; its source id is its index.
   A blob is [bucket, item, idx]: the upload of image idx of the item. *)

MaxItems == 2
MaxImages == 2

\* stop_after_attempt(3) of upload_file
MaxAttempts == 3

UPLOAD_FAILED == "upload_failed"
VALIDATION_ERROR == "validation_error"

\* The local image paths of an item: n question images, at most one answer image
ImagePaths(kind, n) == [k \in 1..n |-> <<kind, k>>]

UploadItems ==
  [chapterId : {NoId, 5},
   questionImages : {ImagePaths("q", n) : n \in 0..MaxImages},
   answerImages : {ImagePaths("a", n) : n \in 0..1}]

ItemLists == UNION {[1..n -> UploadItems] : n \in 0..MaxItems}

\* The locals of upload_single_item before its first statement
FirstPos == [kind |-> "q", idx |-> 1, attempt |-> 1, exc |-> NoneVal]

InitUpload ==
  /\ ImpIdle
  /\ EnsIdle
  /\ CbIdle
  /\ SyncIdle
  /\ MainIdle
  /\ items \in ItemLists
  /\ upc = IF items = <<>> THEN "done" ELSE "item"
  /\ item_idx = 1
  /\ q_id = NoId
  /\ uploaded_q = <<>>
  /\ uploaded_a = <<>>
  /\ upos = FirstPos
  /\ u_success = 0
  /\ u_failed = 0
  /\ updb = [questions |-> {}, question_images |-> {}, answer_images |-> {}, seq |-> 0]
  /\ buckets = {}
  /\ ulog = <<>>

\* The images of the item at hand in the loop over q_imgs or a_imgs
ImagesOf(item, kind) == IF kind = "q" THEN item.questionImages ELSE item.answerImages

\* Where upload_single_item stands after insert_images(answer_images): done
AfterAnswerRows == [upc |-> "success", pos |-> FirstPos]

\* ... after the loop over a_imgs: insert_images issues a call only for rows
AfterAnswerUploads(rows) ==
  IF rows # <<>>
  THEN [upc |-> "insert_images", pos |-> [FirstPos EXCEPT !.kind = "a"]]
  ELSE AfterAnswerRows

\* ... after insert_images(question_images)
AfterQuestionRows(item) ==
  IF item.answerImages # <<>>
  THEN [upc |-> "upload", pos |-> [FirstPos EXCEPT !.kind = "a"]]
  ELSE AfterAnswerUploads(<<>>)

\* ... after the loop over q_imgs
AfterQuestionUploads(item, rows) ==
  IF rows # <<>>
  THEN [upc |-> "insert_images", pos |-> FirstPos]
  ELSE AfterQuestionRows(item)

\* ... after the insert of the questions row
AfterQuestionInsert(item) ==
  IF item.questionImages # <<>>
  THEN [upc |-> "upload", pos |-> FirstPos]
  ELSE AfterQuestionUploads(item, <<>>)

\* upload_single_item returns: the next item, or the end of upload_items.  The
\* history keeps how the item ended, the step that failed, the number of
\* uploads that had succeeded, and what the item added to the report.
ItemEnds(ok, step, report) ==
  /\ ulog' = Append(ulog,
       [idx |-> item_idx, ok |-> ok, step |-> step,
        uploads |-> Len(uploaded_q) + Len(uploaded_a),
        errors |-> Len(report.errors) - Len(error_report.errors),
        report_failed |-> report.failed - error_report.failed])
  /\ error_report' = report
  /\ u_success' = IF ok THEN u_success + 1 ELSE u_success
  /\ u_failed' = IF ok THEN u_failed ELSE u_failed + 1
  /\ item_idx' = item_idx + 1
  /\ upc' = IF item_idx + 1 > Len(items) THEN "done" ELSE "item"
  /\ q_id' = NoId
  /\ uploaded_q' = <<>>
  /\ uploaded_a' = <<>>
  /\ upos' = FirstPos

\* upload_single_item goes on within the item
ItemGoes(nxt) ==
  /\ upc' = nxt.upc
  /\ upos' = nxt.pos
  /\ UNCHANGED <<item_idx, error_report, u_success, u_failed, ulog>>

\* ... or ends it with success when nothing is left to do
GoesOrSucceeds(nxt) ==
  IF nxt.upc = "success"
  THEN ItemEnds(TRUE, NoneVal, add_success(error_report))
  ELSE /\ ItemGoes(nxt)
       /\ UNCHANGED q_id

UploadError(type) == [source_id |-> item_idx, error_type |-> type]

\* The start of upload_single_item: the chapterId test and the insert of the
\* questions row, whose failure reaches the outer handler.
InsertQuestion ==
  /\ upc = "item"
  /\ LET item == items[item_idx]
     IN IF item.chapterId = NoId
        THEN /\ ItemEnds(FALSE, "chapter",
                         add_error(error_report, UploadError(VALIDATION_ERROR)))
             /\ UNCHANGED <<updb, buckets>>
        ELSE \E outcome \in Outcomes :
               IF outcome = "ok"
               THEN /\ updb' = [updb EXCEPT
                                  !.questions = @ \cup {[id |-> updb.seq + 1,
                                                         chapter_id |-> item.chapterId,
                                                         item |-> item_idx]},
                                  !.seq = @ + 1]
                    /\ LET nxt == AfterQuestionInsert(item)
                       IN IF nxt.upc = "success"
                          THEN ItemEnds(TRUE, NoneVal, add_success(error_report))
                          ELSE /\ ItemGoes(nxt)
                               /\ q_id' = updb.seq + 1
                               /\ UNCHANGED <<uploaded_q, uploaded_a>>
                    /\ UNCHANGED buckets
               ELSE /\ ItemEnds(FALSE, "insert",
                                add_error(error_report, UploadError(UPLOAD_FAILED)))
                    /\ UNCHANGED <<updb, buckets>>
  /\ UNCHANGED items
  /\ UNCHANGED <<impVars, ensVars, cbOnly, chapter_map, syncVars, mainVars>>

\* One attempt of upload_file for the image at hand.  A failed attempt is
\* repeated until MaxAttempts attempts were made; the last failure is raised
\* into the inner handler.
UploadFile ==
  /\ upc = "upload"
  /\ LET item == items[item_idx]
         imgs == ImagesOf(item, upos.kind)
         row == [question_id |-> q_id,
                 storage_path |-> <<upos.kind, item_idx, upos.idx>>,
                 position |-> upos.idx]
         upq == IF upos.kind = "q" THEN Append(uploaded_q, row) ELSE uploaded_q
         upa == IF upos.kind = "a" THEN Append(uploaded_a, row) ELSE uploaded_a
     IN \E outcome \in CallOutcomes :
          IF outcome = "ok"
          THEN /\ buckets' = buckets \cup
                               {[bucket |-> upos.kind, item |-> item_idx, idx |-> upos.idx]}
               /\ uploaded_q' = upq
               /\ uploaded_a' = upa
               /\ ItemGoes(IF upos.idx < Len(imgs)
                           THEN [upc |-> "upload",
                                 pos |-> [upos EXCEPT !.idx = @ + 1, !.attempt = 1]]
                           ELSE IF upos.kind = "q"
                           THEN AfterQuestionUploads(item, upq)
                           ELSE AfterAnswerUploads(upa))
          ELSE /\ ItemGoes(IF upos.attempt < MaxAttempts
                           THEN [upc |-> "upload", pos |-> [upos EXCEPT !.attempt = @ + 1]]
                           ELSE [upc |-> "rollback", pos |-> [upos EXCEPT !.exc = "upload"]])
               /\ UNCHANGED <<buckets, uploaded_q, uploaded_a>>
  /\ UNCHANGED <<items, q_id, updb>>
  /\ UNCHANGED <<impVars, ensVars, cbOnly, chapter_map, syncVars, mainVars>>

\* insert_images with rows: one insert into question_images or answer_images
InsertImages ==
  /\ upc = "insert_images"
  /\ LET item == items[item_idx]
         table == IF upos.kind = "q" THEN "question_images" ELSE "answer_images"
         rows == IF upos.kind = "q" THEN uploaded_q ELSE uploaded_a
     IN \E outcome \in CallOutcomes :
          IF outcome = "ok"
          THEN /\ updb' = [updb EXCEPT ![table] = @ \cup Range(rows)]
               /\ IF upos.kind = "q"
                  THEN /\ GoesOrSucceeds(AfterQuestionRows(item))
                       /\ IF AfterQuestionRows(item).upc = "success"
                          THEN TRUE ELSE UNCHANGED <<uploaded_q, uploaded_a>>
                  ELSE ItemEnds(TRUE, NoneVal, add_success(error_report))
          ELSE /\ ItemGoes([upc |-> "rollback", pos |-> [upos EXCEPT !.exc = "image_rows"]])
               /\ UNCHANGED <<updb, q_id, uploaded_q, uploaded_a>>
  /\ UNCHANGED <<items, buckets>>
  /\ UNCHANGED <<impVars, ensVars, cbOnly, chapter_map, syncVars, mainVars>>

\* The inner handler: delete of the questions row, then the error is added
\* to the report and raised again; the outer handler adds an error too and
\* counts the item as failed.  When the delete itself raises, only the outer
\* handler runs.
DeleteQuestion ==
  /\ upc = "rollback"
  /\ \E outcome \in CallOutcomes :
       IF outcome = "ok"
       THEN /\ updb' = [updb EXCEPT !.questions = {r \in @ : r.id # q_id}]
            /\ ItemEnds(FALSE, upos.exc,
                        add_error(add_error(error_report, UploadError(UPLOAD_FAILED)),
                                  UploadError(UPLOAD_FAILED)))
       ELSE /\ UNCHANGED updb
            /\ ItemEnds(FALSE, upos.exc,
                        add_error(error_report, UploadError(UPLOAD_FAILED)))
  /\ UNCHANGED <<items, buckets>>
  /\ UNCHANGED <<impVars, ensVars, cbOnly, chapter_map, syncVars, mainVars>>

NextUpload ==
  \/ InsertQuestion
  \/ UploadFile
  \/ InsertImages
  \/ DeleteQuestion

SpecUpload == InitUpload /\ [][NextUpload]_vars

-----------------------------------------------------------------------------
(* Properties of upload_items *)

\* The errors the report holds for item i, the rows and the blobs it has left
UploadErrorsOf(i) ==
  {k \in 1..Len(error_report.errors) : error_report.errors[k].source_id = i}

QuestionRowsOf(i) == {r \in updb.questions : r.item = i}

UploadedBlobsOf(i) == {b \in buckets : b.item = i}

\* The blobs an item needs: one per question image and per answer image
RequiredBlobs(i) ==
  {[bucket |-> "q", item |-> i, idx |-> k] : k \in 1..Len(items[i].questionImages)}
  \cup {[bucket |-> "a", item |-> i, idx |-> k] : k \in 1..Len(items[i].answerImages)}

\* C12: every item that failed, at whichever step (missing chapterId, question
\* insert, image upload, image-row insert), added exactly one ConversionError
\* to the report and raised the report's failed count by exactly one.
C12_OneErrorPerFailedItem ==
  \A j \in 1..Len(ulog) :
    ~ulog[j].ok =>
      /\ ulog[j].errors = 1
      /\ ulog[j].report_failed = 1
      /\ Cardinality(UploadErrorsOf(ulog[j].idx)) = 1

\* C19: the questions row of an item exists in the backend only when all the
\* images of the item have been uploaded.
C19_InsertAfterUpload ==
  \A i \in 1..Len(items) :
    QuestionRowsOf(i) # {} => RequiredBlobs(i) \subseteq buckets

\* C20: an item that failed after one or more of its image uploads had
\* succeeded has left neither its questions row nor any blob in the backend.
C20_UploadRollback ==
  \A j \in 1..Len(ulog) :
    (~ulog[j].ok /\ ulog[j].uploads > 0) =>
      /\ QuestionRowsOf(ulog[j].idx) = {}
      /\ UploadedBlobsOf(ulog[j].idx) = {}

\* C18: in the exam-paper loop a Record fails on an upload only after the
\* last of MaxAttempts attempts of that upload has failed, and every select,
\* insert and upsert is issued at most once per Record.
C18_UploadRetried ==
  \A i \in 1..Len(records) :
    /\ (OutcomeOf(i) = "failed" /\ "upload" \in CallsOf(i) /\ "insert" \notin CallsOf(i))
          => Get(hist.count, <<i, "upload">>, 0) >= MaxAttempts
    /\ \A kind \in {"select", "insert", "upsert"} :
          Get(hist.count, <<i, kind>>, 0) <= 1

-----------------------------------------------------------------------------
(* The chapter sync of --sync-db (convert_backup.py, main) for one subject:  *)
(* the hierarchy of the chapter tag options is compared with the chapters    *)
(* rows of the subject, missing parent chapters are inserted, then missing   *)
(* sub-chapters.  The chapters table outlives a run, so a later run meets    *)
(* what an earlier one has left.                                             *)

MaxOpts == 2
MaxKids == 1
MaxRuns == 2

DATABASE_ERROR == "database_error"

ChapterNames == {<<"A">>, <<"B">>, <<"C">>}

\* The sequences over S of length at most n
RECURSIVE SeqsUpTo(_, _)
SeqsUpTo(S, n) ==
  IF n = 0 THEN {<<>>}
  ELSE SeqsUpTo(S, n - 1)
       \cup {Append(t, x) : t \in {y \in SeqsUpTo(S, n - 1) : Len(y) = n - 1}, x \in S}

\* The options of the chapter tag: dicts with a name and a list of child
\* names; the top-level names of one tag are distinct
TagOptions == [name : ChapterNames, children : SeqsUpTo(ChapterNames, MaxKids)]

OptionLists ==
  {o \in SeqsUpTo(TagOptions, MaxOpts) :
     \A i, j \in DOMAIN o : i # j => o[i].name # o[j].name}

\* A --chapter-map file given on the command line
ExternalMap == Put(EmptyDict, <<"A">>, 9)

\* A dict in insertion order, as a sequence of <<key, value>>: assigning to a
\* key that is there replaces its value in place
OKeys(d) == {d[i][1] : i \in DOMAIN d}

OPut(d, k, v) ==
  IF k \in OKeys(d)
  THEN [i \in DOMAIN d |-> IF d[i][1] = k THEN <<k, v>> ELSE d[i]]
  ELSE Append(d, <<k, v>>)

\* parse_chapter_hierarchy over the first n options: top is hierarchy[""],
\* kids the entries parent -> child names in insertion order
RECURSIVE ParseOptions(_, _)
ParseOptions(opts, n) ==
  IF n = 0 THEN [top |-> <<>>, kids |-> <<>>]
  ELSE LET h == ParseOptions(opts, n - 1)
           opt == opts[n]
       IN [top |-> Append(h.top, opt.name),
           kids |-> IF opt.children # <<>>
                    THEN OPut(h.kids, opt.name, opt.children)
                    ELSE h.kids]

parse_chapter_hierarchy(opts) == ParseOptions(opts, Len(opts))

\* sub_chapters[child_name] = parent_name for the first n children of a parent
RECURSIVE PutChildren(_, _, _, _)
PutChildren(d, parent, children, n) ==
  IF n = 0 THEN d
  ELSE OPut(PutChildren(d, parent, children, n - 1), children[n], parent)

\* sub_chapters after the first n entries of the hierarchy
RECURSIVE SubChapters(_, _)
SubChapters(kids, n) ==
  IF n = 0 THEN <<>>
  ELSE PutChildren(SubChapters(kids, n - 1), kids[n][1], kids[n][2], Len(kids[n][2]))

\* existing_by_name and existing_by_id after the rows with id <= n, the rows
\* being returned in the order of their ids
RECURSIVE LoadRows(_, _)
LoadRows(rows, n) ==
  IF n = 0 THEN [by_name |-> EmptyDict, by_id |-> EmptyDict]
  ELSE LET e == LoadRows(rows, n - 1)
       IN IF \E r \in rows : r.id = n
          THEN LET row == CHOOSE r \in rows : r.id = n
               IN [by_name |-> Put(e.by_name, row.name,
                                   [id |-> row.id, position |-> row.position,
                                    parent_id |-> row.parent_chapter_id]),
                   by_id |-> Put(e.by_id, row.id, row.name)]
          ELSE e

\* local_chapter_map of the existing chapters: every name, and parent@sub for
\* a row whose parent row is known
LocalChapterMap(by_name, by_id) ==
  LET IsSub(n) == by_name[n].parent_id # NoId /\ by_name[n].parent_id \in DOMAIN by_id
      KeyOf(n) == get_chapter_key(by_id[by_name[n].parent_id], Some(n))
      keys == DOMAIN by_name \cup {KeyOf(n) : n \in {m \in DOMAIN by_name : IsSub(m)}}
  IN [k \in keys |->
        IF k \in DOMAIN by_name THEN by_name[k].id
        ELSE by_name[CHOOSE n \in DOMAIN by_name : IsSub(n) /\ KeyOf(n) = k].id]

\* next_pos: one past the largest position of existing_by_name, 1 if empty
NextPos(by_name) ==
  IF DOMAIN by_name = {} THEN 1
  ELSE LET ps == {by_name[n].position : n \in DOMAIN by_name}
       IN (CHOOSE p \in ps : \A q \in ps : p >= q) + 1

\* missing_parents: the top-level names without a row, in input order
MissingParents(tops, by_name) ==
  SelectSeq(tops, LAMBDA p : p # NoText /\ p \notin DOMAIN by_name)

\* missing_subs: the <<sub, parent>> pairs known neither as parent@sub nor by
\* the sub-chapter's name
MissingSubs(subs, by_name, lmap) ==
  SelectSeq(subs, LAMBDA e : /\ get_chapter_key(e[2], Some(e[1])) \notin DOMAIN lmap
                             /\ e[1] \notin DOMAIN by_name)

\* to_insert of the sub-chapters among the first n missing ones: a pair whose
\* parent has no entry in existing_by_name is skipped
RECURSIVE SubsToInsert(_, _, _, _)
SubsToInsert(missing, n, by_name, next_pos) ==
  IF n = 0 THEN <<>>
  ELSE LET rest == SubsToInsert(missing, n - 1, by_name, next_pos)
           e == missing[n]
       IN IF e[2] \in DOMAIN by_name
          THEN Append(rest, [name |-> e[1], subject_id |-> subject_db_id,
                             position |-> (n - 1) + next_pos,
                             parent_chapter_id |-> by_name[e[2]].id])
          ELSE rest

\* to_insert of the parent chapters
ParentsToInsert(missing, next_pos) ==
  [i \in DOMAIN missing |->
     [name |-> missing[i], subject_id |-> subject_db_id,
      position |-> (i - 1) + next_pos, parent_chapter_id |-> NoId]]

\* The rows the chapters insert writes, with the ids the table assigns
InsertedRows(to_insert, seq) ==
  [i \in DOMAIN to_insert |->
     [id |-> seq + i, name |-> to_insert[i].name, subject_id |-> to_insert[i].subject_id,
      position |-> to_insert[i].position,
      parent_chapter_id |-> to_insert[i].parent_chapter_id]]

InsertChapters(tbl, to_insert) ==
  [rows |-> tbl.rows \cup Range(InsertedRows(to_insert, tbl.seq)),
   seq |-> tbl.seq + Len(to_insert)]

\* The maps after the first n returned parent rows
RECURSIVE NoteParents(_, _, _)
NoteParents(m, rows, n) ==
  IF n = 0 THEN m
  ELSE LET p == NoteParents(m, rows, n - 1)
           row == rows[n]
       IN [by_name |-> Put(p.by_name, row.name,
                           [id |-> row.id, position |-> row.position, parent_id |-> NoId]),
           by_id |-> Put(p.by_id, row.id, row.name),
           lmap |-> Put(p.lmap, row.name, row.id)]

\* local_chapter_map after the first n returned sub-chapter rows
RECURSIVE NoteSubs(_, _, _, _)
NoteSubs(lmap, by_id, rows, n) ==
  IF n = 0 THEN lmap
  ELSE LET row == rows[n]
           parent_name == Get(by_id, row.parent_chapter_id, NoText)
       IN Put(Put(NoteSubs(lmap, by_id, rows, n - 1),
                  get_chapter_key(parent_name, Some(row.name)), row.id),
              row.name, row.id)

SyncError == [source_id |-> sruns, error_type |-> DATABASE_ERROR]

FreshReport == [errors |-> <<>>, total_processed |-> 0, successful |-> 0, failed |-> 0]

InitSync ==
  /\ ImpIdle
  /\ EnsIdle
  /\ CbIdle
  /\ UpIdle
  /\ SyncIdle
  /\ MainIdle

\* The subjects a run may choose, in the order of subject_configs, and the
\* ids of their subjects rows
ChosenSubjects == <<"s1", "s2">>

SubjectDbId(s) == IF s = "s1" THEN 1 ELSE 2

\* The sync loop of main reaches the chapters of a subject: the hierarchy of
\* its options, parent_chapters and sub_chapters (1606-1618).  The subject is
\* the first one of a new run of main, which starts with the chapter map
\* given on the command line and a new error report, or the next one of the
\* run at hand.
SyncStart ==
  /\ sruns < MaxRuns
  /\ \/ /\ spc \in {"idle", "done", "failed", "crashed"}
        /\ subject_configs' = <<ChosenSubjects[1]>>
        /\ subject_db_mappings' =
             Put(EmptyDict, ChosenSubjects[1], SubjectDbId(ChosenSubjects[1]))
        /\ \E ext \in {EmptyDict, ExternalMap} :
             /\ chapter_map' = ext
             /\ margs' = [margs EXCEPT !.chapter_map = ext]
        /\ error_report' = FreshReport
     \/ /\ spc \in {"done", "failed"}
        /\ Len(subject_configs) < Len(ChosenSubjects)
        /\ LET s == ChosenSubjects[Len(subject_configs) + 1]
           IN /\ subject_configs' = Append(subject_configs, s)
              /\ subject_db_mappings' = Put(subject_db_mappings, s, SubjectDbId(s))
        /\ UNCHANGED <<margs, chapter_map, error_report>>
  /\ subject_db_id' = SubjectDbId(subject_configs'[Len(subject_configs')])
  /\ \E opts \in OptionLists :
       LET h == parse_chapter_hierarchy(opts)
       IN /\ options' = opts
          /\ chapter_hierarchy' = h
          /\ parent_chapters' = h.top
          /\ sub_chapters' = SubChapters(h.kids, Len(h.kids))
  /\ existing_by_name' = EmptyDict
  /\ existing_by_id' = EmptyDict
  /\ local_chapter_map' = EmptyDict
  /\ sruns' = sruns + 1
  /\ spc' = "select"
  /\ UNCHANGED <<chapters, slog>>
  /\ UNCHANGED <<mpc, questions_file, cfg_idx, all_converted, saved_report>>
  /\ UNCHANGED <<impVars, ensVars, cbOnly, upVars>>

\* The select of the subject's chapters and the maps built from its rows
\* (1621-1660).  The call is outside every try: if it raises, the run ends.
SyncLoad ==
  /\ spc = "select"
  /\ \E outcome \in CallOutcomes :
       IF outcome = "ok"
       THEN LET e == LoadRows({r \in chapters.rows : r.subject_id = subject_db_id},
                              chapters.seq)
            IN /\ existing_by_name' = e.by_name
               /\ existing_by_id' = e.by_id
               /\ local_chapter_map' = LocalChapterMap(e.by_name, e.by_id)
               /\ spc' = "parents"
       ELSE /\ spc' = "crashed"
            /\ UNCHANGED <<existing_by_name, existing_by_id, local_chapter_map>>
  /\ UNCHANGED <<options, chapter_hierarchy, parent_chapters, sub_chapters, chapters,
                 sruns, slog, chapter_map, error_report>>
  /\ UNCHANGED <<impVars, ensVars, cbOnly, upVars, mainVars>>

\* Step one (1665-1706): the missing parent chapters are inserted in one call.
\* Returned rows are noted in the three maps; an exception adds an error and
\* ends the subject.
InsertParents ==
  /\ spc = "parents"
  /\ LET missing == MissingParents(parent_chapters, existing_by_name)
         to_insert == ParentsToInsert(missing, NextPos(existing_by_name))
         rows == InsertedRows(to_insert, chapters.seq)
     IN IF missing = <<>>
        THEN /\ spc' = "subs"
             /\ UNCHANGED <<existing_by_name, existing_by_id, local_chapter_map,
                            chapters, slog, error_report>>
        ELSE \E outcome \in Outcomes :
               /\ slog' = Append(slog, [run |-> sruns, step |-> "parents",
                                        outcome |-> outcome,
                                        rows |-> IF outcome = "raise" THEN <<>> ELSE rows,
                                        parents |-> <<>>, tops |-> parent_chapters,
                                        before |-> chapters.rows])
               /\ IF outcome = "raise"
                  THEN /\ error_report' = add_error(error_report, SyncError)
                       /\ spc' = "failed"
                       /\ UNCHANGED <<existing_by_name, existing_by_id,
                                      local_chapter_map, chapters>>
                  ELSE /\ chapters' = InsertChapters(chapters, to_insert)
                       /\ spc' = "subs"
                       /\ UNCHANGED error_report
                       /\ IF outcome = "ok"
                          THEN LET m == NoteParents([by_name |-> existing_by_name,
                                                     by_id |-> existing_by_id,
                                                     lmap |-> local_chapter_map],
                                                    rows, Len(rows))
                               IN /\ existing_by_name' = m.by_name
                                  /\ existing_by_id' = m.by_id
                                  /\ local_chapter_map' = m.lmap
                          ELSE UNCHANGED <<existing_by_name, existing_by_id,
                                           local_chapter_map>>
  /\ UNCHANGED <<options, chapter_hierarchy, parent_chapters, sub_chapters, sruns,
                 chapter_map>>
  /\ UNCHANGED <<impVars, ensVars, cbOnly, upVars, mainVars>>

\* chapter_map.update(local_chapter_map) unless a map was given (1770-1773)
UpdateChapterMap(cmap, lmap) == IF cmap = EmptyDict THEN lmap ELSE cmap

\* Step two (1708-1773): the missing sub-chapters whose parent is in
\* existing_by_name are inserted in one call, the returned rows are noted in
\* local_chapter_map, and the chapter map takes local_chapter_map if no map was
\* given.  An exception adds an error and ends the subject.
InsertSubs ==
  /\ spc = "subs"
  /\ LET missing_subs == MissingSubs(sub_chapters, existing_by_name, local_chapter_map)
         to_insert == SubsToInsert(missing_subs, Len(missing_subs), existing_by_name,
                                   NextPos(existing_by_name))
         rows == InsertedRows(to_insert, chapters.seq)
     IN IF to_insert = <<>>
        THEN /\ chapter_map' = UpdateChapterMap(chapter_map, local_chapter_map)
             /\ spc' = "done"
             /\ UNCHANGED <<local_chapter_map, chapters, slog, error_report>>
        ELSE \E outcome \in Outcomes :
               /\ slog' = Append(slog, [run |-> sruns, step |-> "subs",
                                        outcome |-> outcome,
                                        rows |-> IF outcome = "raise" THEN <<>> ELSE rows,
                                        parents |-> SelectSeq(missing_subs,
                                                      LAMBDA e : e[2] \in DOMAIN existing_by_name),
                                        tops |-> parent_chapters,
                                        before |-> chapters.rows])
               /\ IF outcome = "raise"
                  THEN /\ error_report' = add_error(error_report, SyncError)
                       /\ spc' = "failed"
                       /\ UNCHANGED <<local_chapter_map, chapters, chapter_map>>
                  ELSE LET lmap == IF outcome = "ok"
                                   THEN NoteSubs(local_chapter_map, existing_by_id,
                                                 rows, Len(rows))
                                   ELSE local_chapter_map
                       IN /\ chapters' = InsertChapters(chapters, to_insert)
                          /\ local_chapter_map' = lmap
                          /\ chapter_map' = UpdateChapterMap(chapter_map, lmap)
                          /\ spc' = "done"
                          /\ UNCHANGED error_report
  /\ UNCHANGED <<options, chapter_hierarchy, parent_chapters, sub_chapters,
                 existing_by_name, existing_by_id, sruns>>
  /\ UNCHANGED <<impVars, ensVars, cbOnly, upVars, mainVars>>

\* The raw chapters of the questions converted after the sync
SyncedRaws == {Some(<<"A">>), Some(<<"A", "@", "B">>), Some(<<"B">>)}

\* After the sync loop, the conversion loop of main (1782-1801) reaches a
\* question of one of the chosen subjects, and build_output_item resolves its
\* chapter in the chapter map (699-714).
ResolveSynced ==
  /\ spc \in {"done", "failed"}
  /\ \E k \in 1..Len(subject_configs), raw \in SyncedRaws :
       /\ cfg_idx' = k
       /\ raw_chapter_name' = raw
       /\ chapter_id' = ResolveChapterId(raw, chapter_map)
  /\ spc' = "converted"
  /\ UNCHANGED <<options, chapter_hierarchy, parent_chapters, sub_chapters,
                 existing_by_name, existing_by_id, local_chapter_map, chapters,
                 sruns, slog>>
  /\ UNCHANGED <<mpc, margs, questions_file, subject_configs, all_converted,
                 saved_report, subject_db_id, subject_db_mappings>>
  /\ UNCHANGED <<cpc, chapter_map, cargs, lines_read, results, missing_images,
                 error_report, clog>>
  /\ UNCHANGED <<impVars, ensVars, upVars>>

NextSync ==
  \/ SyncStart
  \/ SyncLoad
  \/ InsertParents
  \/ InsertSubs
  \/ ResolveSynced

SpecSync == InitSync /\ [][NextSync]_vars

-----------------------------------------------------------------------------
(* Properties of the chapter sync *)

\* Every insert of the run at hand returned its rows
RunOk == \A k \in DOMAIN slog : slog[k].run = sruns => slog[k].outcome = "ok"

\* The chapters table holds the row id as the sub-chapter child of a row named
\* parent
SubRowOf(parent, child, id) ==
  \E r \in chapters.rows, p \in chapters.rows :
    /\ r.id = id
    /\ r.name = child
    /\ p.name = parent
    /\ r.parent_chapter_id = p.id

\* C15: chapter names are scoped by parent.  When the options hold two
\* different parents P1 and P2 that each have a child named C, a sync whose
\* calls all succeed ends with two distinct sub-chapter rows named C, one under
\* each parent, and with a chapter map that sends P1@C and P2@C to the ids of
\* these two rows.
C15_ChildrenScopedByParent ==
  (spc = "done" /\ RunOk /\ chapter_map = local_chapter_map) =>
    \A i, j \in DOMAIN options :
      options[i].name # options[j].name =>
        \A c \in Range(options[i].children) \cap Range(options[j].children) :
          LET k1 == get_chapter_key(options[i].name, Some(c))
              k2 == get_chapter_key(options[j].name, Some(c))
          IN /\ k1 \in DOMAIN chapter_map
             /\ k2 \in DOMAIN chapter_map
             /\ chapter_map[k1] # chapter_map[k2]
             /\ SubRowOf(options[i].name, c, chapter_map[k1])
             /\ SubRowOf(options[j].name, c, chapter_map[k2])

\* C16: chapter creation order.  In a run no parent insert follows a
\* sub-chapter insert, the parent insert holds the missing top-level names in
\* input order, and every inserted sub-chapter row carries the id of a row
\* that existed at the insert, is a top-level chapter, and is named as the
\* child's parent in the hierarchy; so no child is inserted without a known
\* parent id.
C16_ChapterCreationOrder ==
  \A k \in DOMAIN slog :
    LET e == slog[k]
    IN /\ e.step = "parents" =>
            /\ \A j \in 1..(k - 1) : ~(slog[j].run = e.run /\ slog[j].step = "subs")
            /\ e.outcome # "raise" =>
                 [i \in DOMAIN e.rows |-> e.rows[i].name]
                   = SelectSeq(e.tops, LAMBDA p : \A r \in e.before : r.name # p)
            /\ \A i \in DOMAIN e.rows : e.rows[i].parent_chapter_id = NoId
       /\ e.step = "subs" =>
            \A i \in DOMAIN e.rows :
              /\ e.rows[i].parent_chapter_id # NoId
              /\ \E r \in e.before :
                   /\ r.id = e.rows[i].parent_chapter_id
                   /\ r.parent_chapter_id = NoId
                   /\ r.name = e.parents[i][2]

-----------------------------------------------------------------------------
(* The keys of the tag-value caches and the counters of the record loop *)

\* The tag-value cache of Record i's target subject holds the value the
\* Record looks up for the facet
Resolved(i, facet) ==
  LookedUp(i, facet)
    \in DOMAIN Get(Get(tag_value_cache, TargetSubject(i), EmptyDict), facet, EmptyDict)

\* C27: for every Record the key looked up for the year facet, the string of
\* the parsed year, is among the year values collect_records has required for
\* its subject; so in a run where every upsert returned an id, a processed
\* Record whose paper and season resolve does not fail with 'tag value
\* missing'.
C27_YearKeyConsistent ==
  \A i \in 1..Len(records) :
    /\ IntToStr(records[i].year) \in required_tag_values[records[i].subject_old]["year"]
    /\ (/\ OutcomeOf(i) # NoneVal
        /\ hist.noid = {}
        /\ Resolved(i, "paper")
        /\ Resolved(i, "season"))
         => "tag value missing" \notin ReasonsOf(i)

\* C28: after the upsert phase of a run in which every upsert returned an id,
\* two legacy subjects with the same target subject id find in the caches of
\* that subject every paper, season and year value that either of them
\* requires, and none of their Records fails for its paper or season.
C28_SharedTargetCaches ==
  (pc \in {"loop", "dup", "upload_q", "upload_ms", "insert", "link", "delete",
           "remove", "done"} /\ hist.noid = {}) =>
    \A a, b \in DOMAIN subject_old_to_new :
      (/\ a # b
       /\ InRtv(a)
       /\ InRtv(b)
       /\ subject_old_to_new[a] # NoId
       /\ subject_old_to_new[a] = subject_old_to_new[b]) =>
        /\ \A f \in Facets : \A v \in required_tag_values[a][f] :
             v \in DOMAIN Get(Get(tag_value_cache, subject_old_to_new[a], EmptyDict),
                              f, EmptyDict)
        /\ \A i \in RecordsOf(a) :
             OutcomeOf(i) # NoneVal => Resolved(i, "paper") /\ Resolved(i, "season")

\* C29: at the head of the record loop and at the summary, in a dry run and
\* in a live one, whatever the remote calls did: processed is imported +
\* skipped + failed and the number of Records gone through; each of them has
\* raised exactly one of the three counters; each failed Record has exactly
\* one line in the errors file.
C29_CounterInvariant ==
  pc \in {"loop", "done"} =>
    /\ result.processed = result.imported + result.skipped + result.failed
    /\ result.processed = Cardinality({i \in 1..Len(records) : OutcomeOf(i) # NoneVal})
    /\ \A i \in 1..Len(records) :
         /\ OutcomeOf(i) \in {NoneVal, "imported", "skipped", "failed"}
         /\ OutcomeOf(i) # NoneVal <=> i < loc.i
         /\ OutcomeOf(i) = "failed" => Cardinality(ErrorsOf(i)) = 1
    /\ \A status \in {"imported", "skipped", "failed"} :
         result[status] = Cardinality({i \in 1..Len(records) : OutcomeOf(i) = status})

\* A live run has gone through two Records: one failed on a remote call and
\* has its error line, the other was imported or skipped.
C29_Witness ==
  /\ pc = "done"
  /\ ~args.dry_run
  /\ result.processed = 2
  /\ result.failed = 1
  /\ \E i \in 1..Len(records) : OutcomeOf(i) = "failed" /\ CallsOf(i) # {}
  /\ \E i \in 1..Len(records) : OutcomeOf(i) \in {"imported", "skipped"}

-----------------------------------------------------------------------------
(* parse_chapter_name and get_chapter_key as a pair *)

\* The text before the first "@" of raw and the text after it
RawParent(raw) == SubSeq(raw, 1, FirstAt(raw) - 1)

RawSub(raw) == SubSeq(raw, FirstAt(raw) + 1, Len(raw))

\* Neither part of raw carries surrounding whitespace
PartsClean(raw) ==
  FirstAt(raw) > 0 => Strip(RawParent(raw)) = RawParent(raw) /\ Strip(RawSub(raw)) = RawSub(raw)

\* The key of the parsed raw chapter
KeyOfRaw(raw) ==
  get_chapter_key(parse_chapter_name(raw).parent, parse_chapter_name(raw).sub)

\* C23 as stated: get_chapter_key is the inverse of parse_chapter_name for
\* every raw chapter whose parts carry no surrounding whitespace.
C23_KeyInverse ==
  raw_chapter_name # None =>
    (PartsClean(raw_chapter_name[1]) => KeyOfRaw(raw_chapter_name[1]) = raw_chapter_name[1])

\* C23 (amended): a raw chapter without "@" parses to (raw, None) and its key
\* is raw; one with "@" is split at the first "@" only, the parent holding no
\* "@" and both parts stripped; when its parts carry no surrounding
\* whitespace, the key is raw if the text after the first "@" is not empty,
\* and the parent alone if it is empty.
C23_KeyRoundTrip ==
  raw_chapter_name # None =>
    LET raw == raw_chapter_name[1]
        p == parse_chapter_name(raw)
    IN /\ FirstAt(raw) = 0 => p = [parent |-> raw, sub |-> None] /\ KeyOfRaw(raw) = raw
       /\ FirstAt(raw) > 0 =>
            /\ p.sub # None
            /\ \A j \in 1..Len(p.parent) : p.parent[j] # "@"
            /\ p.parent = Strip(RawParent(raw))
            /\ p.sub[1] = Strip(RawSub(raw))
            /\ (PartsClean(raw) /\ RawSub(raw) # <<>>) => KeyOfRaw(raw) = raw
            /\ (PartsClean(raw) /\ RawSub(raw) = <<>>) => KeyOfRaw(raw) = RawParent(raw)

\* A raw chapter with two "@" has been resolved: its sub-chapter holds the
\* second "@" and its key is the raw chapter.
C23_Witness ==
  /\ cpc = "resolved"
  /\ raw_chapter_name # None
  /\ Cardinality({j \in 1..Len(raw_chapter_name[1]) : raw_chapter_name[1][j] = "@"}) = 2
  /\ PartsClean(raw_chapter_name[1])
  /\ parse_chapter_name(raw_chapter_name[1]).parent = <<"A">>
  /\ parse_chapter_name(raw_chapter_name[1]).sub = Some(<<"@">>)
  /\ KeyOfRaw(raw_chapter_name[1]) = raw_chapter_name[1]

\* The key of a chapters row: its name, or parent@name under its parent row
RowKey(r) ==
  IF r.parent_chapter_id = NoId THEN r.name
  ELSE LET parent == CHOOSE q \in chapters.rows : q.id = r.parent_chapter_id
       IN get_chapter_key(parent.name, Some(r.name))

\* C25: without an external chapter map, when the chapter sync of a subject
\* of the run has ended with every insert answered, the chapter map holds the
\* ids of the chapters rows of that subject under their keys, whichever
\* position the subject has among the chosen ones.
C25_ChapterMapHoldsEverySubject ==
  (spc = "done" /\ RunOk /\ margs.chapter_map = EmptyDict) =>
    \A r \in chapters.rows :
      r.subject_id = subject_db_id =>
        RowKey(r) \in DOMAIN chapter_map /\ chapter_map[RowKey(r)] = r.id

\* C26: without an external chapter map, the chapter id given to a question
\* converted after the sync is, when not null, the id of a chapters row of
\* the question's own subject.
C26_ChapterOfOwnSubject ==
  (spc = "converted" /\ margs.chapter_map = EmptyDict /\ chapter_id # NoId) =>
    \E r \in chapters.rows :
      /\ r.id = chapter_id
      /\ r.subject_id = subject_db_mappings[subject_configs[cfg_idx]]

-----------------------------------------------------------------------------
(* main of convert_backup: the conversion loop over the chosen subjects, the
   upload and the saving of the error report *)

MaxFileLines == 2

\* A line of the questions file that is not valid JSON
BadLine == [valid |-> FALSE, subject |-> NoneVal, chapter |-> None, blocks |-> <<>>]

\* The records of the questions file that main reads
MainObjs ==
  {[valid |-> TRUE, subject |-> s, chapter |-> c, blocks |-> b] :
     s \in {"s1", "s2"},
     c \in {None, Some(<<"A">>)},
     b \in {<<>>, <<Block("image", UrlA)>>, <<Block("image", UrlM)>>}}

QuestionFiles == SeqsUpTo(MainObjs \cup {BadLine}, MaxFileLines)

\* process_questions over the first n lines of the file: the results, the
\* report, the missing images, and how the loop stands ("go", "break" at the
\* limit, "raised" where json.loads raises)
RECURSIVE process_questions(_, _, _, _, _, _)
process_questions(file, n, subject_id, cmap, limit, report) ==
  IF n = 0
  THEN [results |-> <<>>, error_report |-> report, missing_images |-> {},
        state |-> "go"]
  ELSE LET st == process_questions(file, n - 1, subject_id, cmap, limit, report)
           line == file[n]
       IN IF st.state # "go" THEN st
          ELSE IF max_items(limit) # None /\ Len(st.results) >= max_items(limit)[1]
          THEN [st EXCEPT !.state = "break"]
          ELSE IF ~line.valid THEN [st EXCEPT !.state = "raised"]
          ELSE IF line.subject # subject_id THEN st
          ELSE LET obj == [id |-> n, subject |-> line.subject,
                           chapter |-> line.chapter, blocks |-> line.blocks]
                   r == build_output_item(obj, ImageRoot, cmap, st.missing_images,
                                          st.error_report)
                   rep == increment_processed(r.error_report)
               IN IF r.missing_local # <<>>
                  THEN [st EXCEPT !.error_report = rep,
                                  !.missing_images = r.missing_images]
                  ELSE IF r.item # None
                  THEN [st EXCEPT !.results = Append(@, r.item[1]),
                                  !.error_report = add_success(rep),
                                  !.missing_images = r.missing_images]
                  ELSE [st EXCEPT !.error_report = rep,
                                  !.missing_images = r.missing_images]

\* convert_subject: process_questions over the whole file
convert_subject(subject_id, file, cmap, limit, report) ==
  process_questions(file, Len(file), subject_id, cmap, limit, report)

InitMain ==
  /\ ImpIdle
  /\ EnsIdle
  /\ UpIdle
  /\ SyncIdle
  /\ cpc = "idle"
  /\ raw_chapter_name = None
  /\ chapter_id = NoId
  /\ ConvIdle
  /\ mpc = "convert"
  /\ margs \in [limit : {None} \cup {Some(n) : n \in 0..MaxLimit},
                upload : BOOLEAN,
                chapter_map : {EmptyDict, ExternalMap}]
  /\ chapter_map = margs.chapter_map
  /\ questions_file \in QuestionFiles
  /\ subject_configs \in {<<"s1">>, <<"s1", "s2">>}
  /\ cfg_idx = 1
  /\ all_converted = <<>>
  /\ saved_report = None
  /\ subject_db_id = NoId
  /\ subject_db_mappings = EmptyDict

\* One iteration of the loop of main over subject_configs; an exception of
\* convert_subject leaves main, which handles KeyboardInterrupt only
ConvertSubject ==
  /\ mpc = "convert"
  /\ LET r == convert_subject(subject_configs[cfg_idx], questions_file, chapter_map,
                              margs.limit, error_report)
     IN /\ error_report' = r.error_report
        /\ IF r.state = "raised"
           THEN /\ mpc' = "crashed"
                /\ UNCHANGED <<all_converted, cfg_idx>>
           ELSE /\ all_converted' = all_converted \o r.results
                /\ cfg_idx' = cfg_idx + 1
                /\ mpc' = IF cfg_idx = Len(subject_configs) THEN "converted"
                          ELSE "convert"
  /\ UNCHANGED <<margs, questions_file, subject_configs, saved_report,
                 subject_db_id, subject_db_mappings>>
  /\ UNCHANGED <<impVars, ensVars, cbOnly, chapter_map, upVars, syncVars>>

\* The number of items without chapterId that main reports
ReportedMissing == 10

\* The indexes of the items of all_converted without chapterId
missing_chapter_items == SelectSeq([i \in 1..Len(all_converted) |-> i],
                                   LAMBDA i : all_converted[i].chapterId = NoId)

\* Variant of FirstOf that keeps the whole sequence
FirstOf_All(seq, n) == seq

\* seq[:n]
FirstOf(seq, n) == SubSeq(seq, 1, IF Len(seq) < n THEN Len(seq) ELSE n)

\* The errors main adds for the items without chapterId
RECURSIVE ReportMissing(_, _)
ReportMissing(idxs, report) ==
  IF idxs = <<>> THEN report
  ELSE add_error(ReportMissing(SubSeq(idxs, 1, Len(idxs) - 1), report),
                 [source_id |-> all_converted[idxs[Len(idxs)]].sourceId,
                  error_type |-> VALIDATION_ERROR])

\* error_report.save, made only when something was processed
SaveReport(report) ==
  IF report.total_processed > 0 THEN Some(report) ELSE saved_report

\* main after the conversion: without --upload the report is saved; with it the
\* items without chapterId are reported and left out, and upload_items starts
\* (main returns, saving nothing, when no item is left)
StartUpload ==
  /\ mpc = "converted"
  /\ IF ~margs.upload
     THEN /\ saved_report' = SaveReport(error_report)
          /\ mpc' = "ended"
          /\ UNCHANGED <<error_report, upVars>>
     ELSE LET report == ReportMissing(FirstOf(missing_chapter_items, ReportedMissing),
                                      error_report)
              upload_items_list == SelectSeq(all_converted,
                                             LAMBDA item : item.chapterId # NoId)
          IN /\ error_report' = report
             /\ IF upload_items_list = <<>>
                THEN /\ mpc' = "ended"
                     /\ UNCHANGED <<saved_report, upVars>>
                ELSE /\ mpc' = "upload"
                     /\ items' = upload_items_list
                     /\ upc' = "item"
                     /\ upos' = FirstPos
                     /\ UNCHANGED <<saved_report, item_idx, q_id, uploaded_q,
                                    uploaded_a, u_success, u_failed, updb, buckets,
                                    ulog>>
  /\ UNCHANGED <<margs, questions_file, subject_configs, cfg_idx, all_converted,
                 subject_db_id, subject_db_mappings>>
  /\ UNCHANGED <<impVars, ensVars, cbOnly, chapter_map, syncVars>>

\* main after upload_items: the report is saved
SaveAfterUpload ==
  /\ mpc = "upload"
  /\ upc = "done"
  /\ saved_report' = SaveReport(error_report)
  /\ mpc' = "ended"
  /\ UNCHANGED <<margs, questions_file, subject_configs, cfg_idx, all_converted,
                 subject_db_id, subject_db_mappings>>
  /\ UNCHANGED <<impVars, ensVars, cbVars, upVars, syncVars>>

NextMain ==
  \/ ConvertSubject
  \/ StartUpload
  \/ InsertQuestion
  \/ UploadFile
  \/ InsertImages
  \/ DeleteQuestion
  \/ SaveAfterUpload

SpecMain == InitMain /\ [][NextMain]_vars

-----------------------------------------------------------------------------
(* The run of main as a whole *)

\* C21: a line of the questions file that is not valid JSON does not abort
\* the run: main goes on to the end of the conversion
C21_StreamFaultTolerant ==
  (\E k \in 1..Len(questions_file) : questions_file[k] = BadLine) => mpc # "crashed"

\* C24: the export count is a total shared by the chosen subjects: with a
\* limit L, all_converted never holds more than L items
C24_LimitIsTotal ==
  max_items(margs.limit) # None => Len(all_converted) <= margs.limit[1]

\* C30: the report that is saved is consistent, with or without --upload:
\* successful + failed = total_processed and failed = len(errors)
C30_SavedReportConsistent ==
  saved_report # None =>
    LET r == saved_report[1]
    IN /\ r.successful + r.failed = r.total_processed
       /\ r.failed = Len(r.errors)

-----------------------------------------------------------------------------
(* main after the conversion of a file with more items without chapterId than
   it reports one by one *)

MaxConverted == 11

\* Files of records of one subject without images, with or without a chapter
PlainFiles ==
  UNION {[1..n -> {[valid |-> TRUE, subject |-> "s1", chapter |-> c, blocks |-> <<>>] :
                     c \in {None, Some(<<"A">>)}}] : n \in 0..MaxConverted}

InitReport ==
  /\ ImpIdle
  /\ EnsIdle
  /\ UpIdle
  /\ SyncIdle
  /\ cpc = "idle"
  /\ raw_chapter_name = None
  /\ chapter_id = NoId
  /\ cargs = [limit |-> None]
  /\ lines_read = 0
  /\ results = <<>>
  /\ missing_images = {}
  /\ clog = <<>>
  /\ mpc = "converted"
  /\ margs = [limit |-> None, upload |-> TRUE, chapter_map |-> ExternalMap]
  /\ chapter_map = margs.chapter_map
  /\ questions_file \in PlainFiles
  /\ subject_configs = <<"s1">>
  /\ cfg_idx = 2
  /\ LET r == convert_subject("s1", questions_file, chapter_map, margs.limit,
                              FreshReport)
     IN /\ all_converted = r.results
        /\ error_report = r.error_report
  /\ saved_report = None
  /\ subject_db_id = NoId
  /\ subject_db_mappings = EmptyDict

NextReport == StartUpload

SpecReport == InitReport /\ [][NextReport]_vars

\* The entries of the report about item i of all_converted lacking a chapterId
MissingEntries(i) ==
  {k \in 1..Len(error_report.errors) :
     /\ error_report.errors[k].error_type = VALIDATION_ERROR
     /\ error_report.errors[k].source_id = all_converted[i].sourceId}

MissingRank(i) == Cardinality({j \in 1..i : all_converted[j].chapterId = NoId})

=============================================================================
